---- MODULE Spec2Model ----
(***************************************************************************)
(* A model of the order validation and resilient execution engine of the   *)
(* trading bot: utils.RateLimiter, utils.exponential_backoff,              *)
(* BasicBot._make_api_call, BasicBot._sync_time_with_binance, the filter   *)
(* validators and the order placement entry points.                        *)
(*                                                                         *)
(* Numbers.  Times are whole ticks of time.time().  Quantities and prices  *)
(* are whole multiples of the smallest granularity the exchange publishes  *)
(* (Decimal arithmetic on such values is exact, so the integers are the    *)
(* values themselves).  Sleeps are in hundredths of a second.              *)
(***************************************************************************)
EXTENDS Integers, Sequences, FiniteSets, TLC

VARIABLES
    \* ---- utils.RateLimiter
    max_requests,   \* RateLimiter.max_requests
    time_window,    \* RateLimiter.time_window
    requests,       \* RateLimiter.requests: the recorded request times
    now,            \* the value time.time() returns
    admitted,       \* history: the call times of every acquire() that returned True
    rlLast,         \* history: the last RateLimiter call and what it returned
    acq,            \* the acquire() calls in progress in concurrent callers: position, local now
    \* ---- BasicBot clock and the two retry loops
    time_offset,    \* BasicBot.time_offset
    lastSynced,     \* history: the offset the most recent successful sync computed (0 if none)
    call,           \* the retry loop in progress: its arguments, its position, its history
    \* ---- BasicBot filter cache, the exchange, the last validator or order call
    symbol_filters, \* BasicBot.symbol_filters: symbol -> filterType -> filter
    ticker_price,   \* the exchange: the price futures_symbol_ticker reports
    out,            \* history: the last validator or order call, its arguments and its result
    \* ---- the order entry points
    exchange_info,  \* BasicBot.exchange_info['symbols']: symbol -> its status
    active_orders,  \* OrderManager.active_orders: order id -> snapshot
    next_order_id,  \* the exchange: the id it gives the next order it creates
    intent,         \* the arguments the caller passes to the order entry point
    \* ---- OrderManager calls running in concurrent threads
    open_orders,    \* the exchange: the ids of the orders it holds open
    running         \* the calls in progress: each one's position and locals

rlVars == <<max_requests, time_window, requests, now, admitted, rlLast, acq>>
exVars == <<time_offset, lastSynced, call>>
ordVars == <<symbol_filters, ticker_price, out, exchange_info, active_orders, next_order_id, intent>>
thrVars == <<open_orders, running>>

vars == <<max_requests, time_window, requests, now, admitted, rlLast, acq,
          time_offset, lastSynced, call, symbol_filters, ticker_price, out,
          exchange_info, active_orders, next_order_id, intent, open_orders, running>>

(***************************************************************************)
(* Bounds of the model.                                                    *)
(***************************************************************************)
MaxRequests == 2
MaxWindow == 2
MaxTime == 4
MaxRetries == 3

(***************************************************************************)
(* The exchange's failures.  An error is named by its Python type, and for *)
(* a BinanceAPIException by its code.                                      *)
(*   API-1021  timestamp outside the recvWindow                            *)
(*   API-1003  too many requests                                           *)
(*   API-2010  new order rejected (the tests' "insufficient balance")      *)
(*   API-1102  a mandatory parameter is missing or malformed               *)
(*   RequestException  requests.exceptions.RequestException: timeout,      *)
(*                     connection reset                                    *)
(*   Exception  any other exception; it has no `code` attribute            *)
(***************************************************************************)
ApiCode == [e \in {"API-1021", "API-1003", "API-2010", "API-1102"} |->
              CASE e = "API-1021" -> -1021
                [] e = "API-1003" -> -1003
                [] e = "API-2010" -> -2010
                [] e = "API-1102" -> -1102]

Errors == DOMAIN ApiCode \cup {"RequestException", "Exception"}

\* hasattr(e, 'code')
HasCode(e) == e \in DOMAIN ApiCode

\* the Python type of an error
ExcType(e) == IF HasCode(e) THEN "BinanceAPIException" ELSE e

\* what client.get_server_time() can give: a failure, or serverTime - local time
ServerSkews == {2}
SyncResults == {[ok |-> FALSE, skew |-> 0]} \cup {[ok |-> TRUE, skew |-> k] : k \in ServerSkews}

\* the jitter factor 0.5 + random.random() * 0.5, in percent
JitterPcts == {50, 99}

NoCall == [op |-> "none", ret |-> FALSE, at |-> 0]
NoOut == [op |-> "none"]
NoRaise == [type |-> "none", of |-> "none"]
NoApiCall ==
    [exec |-> "none", func |-> "none", max_retries |-> 0, max_delay |-> 0, attempt |-> 0,
     status |-> "idle", raised |-> NoRaise, log |-> <<>>, sleeps |-> <<>>,
     stamps |-> <<>>, created |-> 0]

\* 2 ** n
RECURSIVE Pow2(_)
Pow2(n) == IF n = 0 THEN 1 ELSE 2 * Pow2(n - 1)

Min(a, b) == IF a <= b THEN a ELSE b

(***************************************************************************)
(* Optional arguments: None is <<>>, a value x is <<x>>.                    *)
(***************************************************************************)
None == <<>>
Some(x) == <<x>>

(***************************************************************************)
(* BasicBot._sync_time_with_binance                                        *)
(***************************************************************************)
\* time_offset after one run of _sync_time_with_binance whose get_server_time() gave res
SyncTimeWithBinance(res, old) == IF res.ok THEN res.skew ELSE 0

(***************************************************************************)
(* BasicBot._make_api_call                                                 *)
(***************************************************************************)
\* an error the loop cannot classify is retried like a network error
BotDispositionRetriesUnknown(e) ==
    IF HasCode(e)
    THEN IF ApiCode[e] = -1021 THEN "resync"
         ELSE IF ApiCode[e] = -1003 THEN "backoff"
         ELSE "raise"
    ELSE "backoff"

\* the except clauses of _make_api_call: what is done with an error when attempts remain
BotDisposition(e) ==
    IF HasCode(e)
    THEN IF ApiCode[e] = -1021 THEN "resync"
         ELSE IF ApiCode[e] = -1003 THEN "backoff"
         ELSE "raise"
    ELSE IF e = "RequestException" THEN "backoff"
    ELSE "raise"

\* wait_time = 2 ** attempt, in hundredths of a second
BotWaitTime(attempt) == 100 * Pow2(attempt)

\* the methods of the exchange client that the repository passes to _make_api_call,
\* each name by its words
MethodWords ==
    [futures_create_order           |-> <<"futures", "create", "order">>,
     futures_cancel_order           |-> <<"futures", "cancel", "order">>,
     futures_get_order              |-> <<"futures", "get", "order">>,
     futures_account                |-> <<"futures", "account">>,
     futures_symbol_ticker          |-> <<"futures", "symbol", "ticker">>,
     futures_exchange_info          |-> <<"futures", "exchange", "info">>,
     futures_get_open_orders        |-> <<"futures", "get", "open", "orders">>,
     futures_cancel_all_open_orders |-> <<"futures", "cancel", "all", "open", "orders">>]

ClientMethods == DOMAIN MethodWords

\* timestamp_methods
TimestampMethods ==
    {"futures_create_order", "futures_cancel_order", "futures_get_order",
     "futures_account", "futures_symbol_ticker"}

\* str(func) of a bound method of the client
StrOfFunc(f) ==
    <<"<bound", "method", "Client">> \o MethodWords[f] \o <<"of", "<Client", "object>>">>

\* needle in hay
Occurs(needle, hay) ==
    \E i \in 0..(Len(hay) - Len(needle)) :
        \A j \in 1..Len(needle) : hay[i + j] = needle[j]

\* any(method in str(func) for method in timestamp_methods)
NeedsTimestamp(f) == \E m \in TimestampMethods : Occurs(MethodWords[m], StrOfFunc(f))

\* every call is stamped, whatever the method
StampAlways(f, off) == Some(off)

\* kwargs['timestamp'] of one attempt, as the offset added to int(time.time() * 1000):
\* None when the attempt is not stamped
Stamp(f, off) == IF NeedsTimestamp(f) THEN Some(off) ELSE None

\* the orders the exchange creates for one attempt of func that ended as outcome
\* ("ok" or the error raised); processed tells whether a request that ended in a
\* network error had reached the exchange before the connection failed
OrdersCreated(func, outcome, processed) ==
    IF /\ func = "futures_create_order"
       /\ (outcome = "ok" \/ (outcome = "RequestException" /\ processed))
    THEN 1 ELSE 0

\* the last attempt too is followed by a retry
AttemptsRemainAtLast(attempt, max_retries) == attempt <= max_retries

\* if attempt < max_retries
AttemptsRemain(attempt, max_retries) == attempt < max_retries

\* a call of _make_api_call(func, max_retries = m) begins
StartBotCall ==
    /\ call.status # "running"
    /\ \E f \in ClientMethods, m \in 0..MaxRetries :
          call' = [NoApiCall EXCEPT !.exec = "bot", !.func = f, !.max_retries = m,
                                    !.status = "running"]
    /\ UNCHANGED <<time_offset, lastSynced>>
    /\ UNCHANGED rlVars
    /\ UNCHANGED ordVars
    /\ UNCHANGED thrVars

\* one iteration of the loop whose func(*args, **kwargs) returns
BotAttemptReturns ==
    /\ call.exec = "bot" /\ call.status = "running"
    /\ call' = [call EXCEPT !.status = "returned", !.log = Append(@, "ok"),
                            !.stamps = Append(@, Stamp(call.func, time_offset)),
                            !.created = @ + OrdersCreated(call.func, "ok", FALSE)]
    /\ UNCHANGED <<time_offset, lastSynced>>
    /\ UNCHANGED rlVars
    /\ UNCHANGED ordVars
    /\ UNCHANGED thrVars

\* one iteration of the loop whose func(*args, **kwargs) raises e
BotAttemptFails ==
    /\ call.exec = "bot" /\ call.status = "running"
    /\ \E e \in Errors, res \in SyncResults :
       \E processed \in (IF call.func = "futures_create_order" /\ e = "RequestException"
                         THEN BOOLEAN ELSE {FALSE}) :
          LET d == BotDisposition(e)
              made == call.created + OrdersCreated(call.func, e, processed)
              retry == d # "raise" /\ AttemptsRemain(call.attempt, call.max_retries)
          IN  /\ call' =
                    IF retry
                    THEN [call EXCEPT
                            !.attempt = @ + 1,
                            !.log = @ \o (IF d = "resync" THEN <<e, "sync", "sleep">>
                                          ELSE <<e, "sleep">>),
                            !.sleeps = Append(@, BotWaitTime(call.attempt)),
                            !.stamps = Append(@, Stamp(call.func, time_offset)),
                            !.created = made]
                    ELSE [call EXCEPT
                            !.status = "raised",
                            !.raised = [type |-> ExcType(e), of |-> e],
                            !.log = Append(@, e),
                            !.stamps = Append(@, Stamp(call.func, time_offset)),
                            !.created = made]
              /\ time_offset' = IF retry /\ d = "resync"
                                THEN SyncTimeWithBinance(res, time_offset) ELSE time_offset
              /\ lastSynced' = IF retry /\ d = "resync" /\ res.ok THEN res.skew ELSE lastSynced
    /\ UNCHANGED rlVars
    /\ UNCHANGED ordVars
    /\ UNCHANGED thrVars

(***************************************************************************)
(* utils.exponential_backoff                                               *)
(***************************************************************************)
\* no_retry_codes
NoRetryCodes == {-1021, -1022, -2010, -2011, -2013, -2014, -2015}

\* every error that carries a code is raised at once
UtilNoRetryAnyCode(e) == HasCode(e)

\* hasattr(e, 'code') and getattr(e, 'code', None) in no_retry_codes
UtilNoRetry(e) == HasCode(e) /\ ApiCode[e] \in NoRetryCodes

\* delay = min(base_delay * (backoff_factor ** attempt), max_delay), with
\* base_delay = 1.0 and backoff_factor = 2.0, in hundredths of a second
UtilDelay(attempt, max_delay) == Min(100 * Pow2(attempt), max_delay)

\* a call of a function wrapped by exponential_backoff(max_retries = m, max_delay = c) begins
StartUtilCall ==
    /\ call.status # "running"
    /\ \E m \in 0..MaxRetries, c \in {300, 6000} :
          call' = [NoApiCall EXCEPT !.exec = "util", !.func = "wrapped", !.max_retries = m,
                                    !.max_delay = c, !.status = "running"]
    /\ UNCHANGED <<time_offset, lastSynced>>
    /\ UNCHANGED rlVars
    /\ UNCHANGED ordVars
    /\ UNCHANGED thrVars

\* one iteration of the wrapper's loop whose func(*args, **kwargs) returns
UtilAttemptReturns ==
    /\ call.exec = "util" /\ call.status = "running"
    /\ call' = [call EXCEPT !.status = "returned", !.log = Append(@, "ok")]
    /\ UNCHANGED <<time_offset, lastSynced>>
    /\ UNCHANGED rlVars
    /\ UNCHANGED ordVars
    /\ UNCHANGED thrVars

\* one iteration of the wrapper's loop whose func(*args, **kwargs) raises e
UtilAttemptFails ==
    /\ call.exec = "util" /\ call.status = "running"
    /\ \E e \in Errors, pct \in JitterPcts :
          call' =
             IF UtilNoRetry(e)
             THEN [call EXCEPT !.status = "raised",
                               !.raised = [type |-> ExcType(e), of |-> e],
                               !.log = Append(@, e)]
             ELSE IF call.attempt = call.max_retries
             THEN [call EXCEPT !.status = "raised",
                               !.raised = [type |-> "RetryExhaustedError", of |-> e],
                               !.log = Append(@, e)]
             ELSE [call EXCEPT
                     !.attempt = @ + 1,
                     !.log = @ \o <<e, "sleep">>,
                     !.sleeps = Append(@, (UtilDelay(call.attempt, call.max_delay) * pct) \div 100)]
    /\ UNCHANGED <<time_offset, lastSynced>>
    /\ UNCHANGED rlVars
    /\ UNCHANGED ordVars
    /\ UNCHANGED thrVars

\* BasicBot.__init__: time_offset = 0, then _sync_time_with_binance()
ExecInit ==
    /\ \E res \in SyncResults :
          /\ time_offset = SyncTimeWithBinance(res, 0)
          /\ lastSynced = IF res.ok THEN res.skew ELSE 0
    /\ call = NoApiCall
    /\ max_requests = 1
    /\ time_window = 1
    /\ requests = <<>>
    /\ now = 0
    /\ admitted = <<>>
    /\ rlLast = NoCall
    /\ acq = <<>>
    /\ open_orders = {}
    /\ running = <<>>
    /\ symbol_filters = <<>>
    /\ ticker_price = <<>>
    /\ out = NoOut
    /\ exchange_info = <<>>
    /\ active_orders = <<>>
    /\ next_order_id = 1
    /\ intent = NoOut

ExecNext ==
    \/ StartBotCall
    \/ BotAttemptReturns
    \/ BotAttemptFails
    \/ StartUtilCall
    \/ UtilAttemptReturns
    \/ UtilAttemptFails

SpecExec == ExecInit /\ [][ExecNext]_vars

\* the loop of _make_api_call goes on: func returns or raises, a sleep ends
SpecExecFair ==
    ExecInit /\ [][ExecNext]_vars /\ WF_vars(BotAttemptReturns \/ BotAttemptFails)

(***************************************************************************)
(* C2 - C6: the retry loops and the clock                                  *)
(***************************************************************************)
\* the positions of a call's log at which func was invoked
InvokedAt(log) == {i \in DOMAIN log : log[i] \in Errors \cup {"ok"}}

\* how many times func was invoked
Invocations(log) == Cardinality(InvokedAt(log))

\* every invocation of the call failed with error e
AllFailedWith(log, e) == \A i \in InvokedAt(log) : log[i] = e

\* C2: an operation that _make_api_call finds rate-limited (-1003) on every attempt is
\* invoked exactly max_retries + 1 times, and the call then raises RetryExhausted
\* wrapping the last cause.
C2_RateLimitExhaustion ==
    (call.exec = "bot" /\ call.status = "raised" /\ AllFailedWith(call.log, "API-1003")) =>
        /\ Invocations(call.log) = call.max_retries + 1
        /\ call.raised = [type |-> "RetryExhaustedError", of |-> "API-1003"]

\* the business-coded errors of the model: a rejected order, a malformed parameter
BusinessErrors == {"API-2010", "API-1102"}

\* C3: in both retry loops an operation that fails with a business-coded error is
\* invoked exactly once, nothing sleeps, and the original error is raised.
C3_BusinessErrorNeverRetried ==
    (call.log # <<>> /\ call.log[1] \in BusinessErrors) =>
        /\ call.log = <<call.log[1]>>
        /\ call.sleeps = <<>>
        /\ call.status = "raised"
        /\ call.raised = [type |-> "BinanceAPIException", of |-> call.log[1]]

\* C4: in _make_api_call a timestamp rejection (-1021) with attempts remaining is
\* followed by the clock sync, then the backoff sleep, then the next attempt; and a
\* call whose every attempt is timestamp-rejected ends after max_retries + 1
\* invocations with RetryExhausted.
C4_TimestampResyncThenRetry ==
    call.exec = "bot" =>
        /\ \A i \in DOMAIN call.log :
              (call.log[i] = "API-1021"
                  /\ Cardinality({j \in InvokedAt(call.log) : j <= i}) <= call.max_retries) =>
                 /\ i + 2 <= Len(call.log)
                 /\ call.log[i + 1] = "sync"
                 /\ call.log[i + 2] = "sleep"
        /\ (call.status = "raised" /\ AllFailedWith(call.log, "API-1021")) =>
              /\ Invocations(call.log) = call.max_retries + 1
              /\ call.raised.type = "RetryExhaustedError"

\* the errors neither loop's policy names as rate-limited, timestamp-rejected or network
Unclassified == {"Exception"}

C6_FailedSyncKeepsOffset == time_offset = lastSynced

(***************************************************************************)
(* utils.RateLimiter                                                       *)
(***************************************************************************)
\* the entries of a list of request times that are at least as old as the window are kept too
PruneKeepsBoundary(reqs, t) == SelectSeq(reqs, LAMBDA r : t - r <= time_window)

\* [req_time for req_time in self.requests if now - req_time < self.time_window]
Prune(reqs, t) == SelectSeq(reqs, LAMBDA r : t - r < time_window)

\* len(self.requests) >= self.max_requests
AtLimit(reqs) == Len(reqs) >= max_requests

RLInit ==
    /\ max_requests \in 1..MaxRequests
    /\ time_window \in 1..MaxWindow
    /\ requests = <<>>
    /\ now = 0
    /\ admitted = <<>>
    /\ rlLast = NoCall
    /\ acq = <<>>
    /\ open_orders = {}
    /\ running = <<>>
    /\ time_offset = 0
    /\ lastSynced = 0
    /\ call = NoApiCall
    /\ symbol_filters = <<>>
    /\ ticker_price = <<>>
    /\ out = NoOut
    /\ exchange_info = <<>>
    /\ active_orders = <<>>
    /\ next_order_id = 1
    /\ intent = NoOut

\* time.time() moves on between two calls
Tick ==
    /\ now < MaxTime
    /\ now' = now + 1
    /\ UNCHANGED <<max_requests, time_window, requests, admitted, rlLast, acq>>
    /\ UNCHANGED exVars
    /\ UNCHANGED ordVars
    /\ UNCHANGED thrVars

\* RateLimiter.acquire()
Acquire ==
    LET pruned == Prune(requests, now)
        ret == ~AtLimit(pruned)
    IN  /\ requests' = IF ret THEN Append(pruned, now) ELSE pruned
        /\ admitted' = IF ret THEN Append(admitted, now) ELSE admitted
        /\ rlLast' = [op |-> "acquire", ret |-> ret, at |-> now]
        /\ UNCHANGED <<max_requests, time_window, now, acq>>
        /\ UNCHANGED exVars
        /\ UNCHANGED ordVars
        /\ UNCHANGED thrVars

\* wait_time() with the limit test off by one: a full limiter reports no wait
WaitTimeUnlessFull(reqs, t) ==
    IF Len(reqs) <= max_requests THEN 0
    ELSE time_window - (t - (CHOOSE r \in {reqs[i] : i \in DOMAIN reqs} :
                                \A i \in DOMAIN reqs : r <= reqs[i]))

\* RateLimiter.wait_time() at time t
WaitTime(reqs, t) ==
    IF Len(reqs) < max_requests THEN 0
    ELSE time_window - (t - (CHOOSE r \in {reqs[i] : i \in DOMAIN reqs} :
                                \A i \in DOMAIN reqs : r <= reqs[i]))

\* a caller asks RateLimiter.wait_time()
CallWaitTime ==
    /\ rlLast' = [op |-> "wait_time", ret |-> FALSE, at |-> now,
                  wait |-> WaitTime(requests, now)]
    /\ UNCHANGED <<max_requests, time_window, requests, now, admitted, acq>>
    /\ UNCHANGED exVars
    /\ UNCHANGED ordVars
    /\ UNCHANGED thrVars

RLNext == Tick \/ Acquire \/ CallWaitTime

SpecRL == RLInit /\ [][RLNext]_vars

(***************************************************************************)
(* C1                                                                      *)
(***************************************************************************)
\* the admitted calls before the last acquire()
AdmittedBefore == IF rlLast.ret THEN SubSeq(admitted, 1, Len(admitted) - 1) ELSE admitted

\* how many entries of a sequence of times satisfy a test
CountIn(s, Test(_)) == Cardinality({i \in DOMAIN s : Test(s[i])})

\* C1: acquire() returns True exactly when fewer than max_requests previously
\* admitted requests are younger than time_window at the call time; the recorded
\* request times are exactly the admitted call times still younger than the window
\* (so a call time is recorded only when the call returned True); and no interval
\* [t, t + time_window) holds more than max_requests admitted requests.
C1_SlidingWindowAdmission ==
    /\ rlLast.op = "acquire" =>
          /\ rlLast.ret <=>
                CountIn(AdmittedBefore, LAMBDA r : rlLast.at - r < time_window) < max_requests
          /\ requests = SelectSeq(admitted, LAMBDA r : rlLast.at - r < time_window)
    /\ \A t \in 0..MaxTime :
          CountIn(admitted, LAMBDA r : t <= r /\ r < t + time_window) <= max_requests

\* C1 witness: the limiter is full, an acquire() was refused, and after the oldest
\* entry left the window a later acquire() was admitted again
C1_Witness ==
    /\ rlLast.op = "acquire" /\ rlLast.ret
    /\ Len(admitted) > max_requests
    /\ Len(requests) < Len(admitted)

(***************************************************************************)
(* C22: wait_time() when acquire() would refuse                            *)
(***************************************************************************)
\* C22: whenever wait_time() is asked at a time at which acquire() would return
\* False (the pruned request list is at the limit), it returns a strictly positive
\* duration.
C22_WaitPositiveWhenRefused ==
    (rlLast.op = "wait_time" /\ AtLimit(Prune(requests, rlLast.at))) => rlLast.wait > 0

\* max_requests = 2: two acquires were admitted at the same time, a third would be
\* refused, and wait_time() answered the whole window
C22_Witness ==
    /\ rlLast.op = "wait_time"
    /\ max_requests = 2 /\ time_window = 1
    /\ requests = <<rlLast.at, rlLast.at>>
    /\ AtLimit(Prune(requests, rlLast.at))
    /\ rlLast.wait = 1

(***************************************************************************)
(* C39: the sign of wait_time()                                            *)
(***************************************************************************)
\* C39: wait_time() is never negative, and it is 0 whenever the next acquire()
\* would be admitted (the request list pruned to the window is below the limit).
C39_WaitNeverNegative ==
    rlLast.op = "wait_time" =>
        /\ rlLast.wait >= 0
        /\ ~AtLimit(Prune(requests, rlLast.at)) => rlLast.wait = 0

(***************************************************************************)
(* C24: which attempts the executor stamps, and with which offset          *)
(***************************************************************************)
\* the operations the claim calls timestamp-requiring, and those it places outside
StampedOperations ==
    {"futures_create_order", "futures_cancel_order", "futures_get_order",
     "futures_account", "futures_symbol_ticker"}
UnstampedOperations ==
    {"futures_exchange_info", "futures_get_open_orders", "futures_cancel_all_open_orders"}

\* a step that is one attempt of a call made through _make_api_call
BotAttempt ==
    /\ call.exec = "bot" /\ call.status = "running"
    /\ call'.exec = "bot" /\ call'.func = call.func
    /\ Len(call'.log) > Len(call.log)

\* C24: every attempt of a timestamp-requiring operation is stamped with local time
\* plus the clock offset current at that attempt, an attempt after a resync with the
\* refreshed offset; an attempt of exchange info, open-order listing or cancel-all
\* is never stamped.
C24_AttemptsStampedWithCurrentOffset ==
    [][BotAttempt =>
         /\ Len(call'.stamps) = Len(call.stamps) + 1
         /\ call.func \in StampedOperations =>
                call'.stamps[Len(call'.stamps)] = <<time_offset>>
         /\ call.func \in UnstampedOperations =>
                call'.stamps[Len(call'.stamps)] = <<>>
         /\ call.func \in StampedOperations \cup UnstampedOperations]_vars

\* an order creation whose first attempt was stamped with offset 0 was rejected with
\* -1021, the clock was resynchronised to 2 and the second attempt carried 2
C24_Witness ==
    /\ call.exec = "bot" /\ call.func = "futures_create_order"
    /\ call.status = "returned"
    /\ call.log = <<"API-1021", "sync", "sleep", "ok">>
    /\ call.stamps = <<<<0>>, <<2>>>>

\* an open-order listing that was retried: neither attempt stamped
C24_WitnessUnstamped ==
    /\ call.exec = "bot" /\ call.func = "futures_get_open_orders"
    /\ Len(call.log) >= 3
    /\ call.stamps = <<<<>>, <<>>>>

(***************************************************************************)
(* C26: how often exponential_backoff invokes the wrapped function         *)
(***************************************************************************)
\* an error the wrapper retries: it carries no code, or a code outside no_retry_codes
Retryable(e) == ~HasCode(e) \/ ApiCode[e] \notin NoRetryCodes

\* the positions of the log at which the wrapped function failed
FailedAt(log) == {i \in DOMAIN log : log[i] \in Errors}

\* C26: a function wrapped by exponential_backoff(max_retries = N) is invoked until
\* its first success or until N + 1 invocations have failed: after k <= N retryable
\* failures and a success the wrapper has returned after exactly k + 1 invocations,
\* and after N + 1 retryable failures it has raised RetryExhaustedError.
C26_InvokedUntilSuccessOrExhausted ==
    (call.exec = "util" /\ \A i \in FailedAt(call.log) : Retryable(call.log[i])) =>
        LET k == Cardinality(FailedAt(call.log))
            N == call.max_retries
        IN  /\ Invocations(call.log) <= N + 1
            /\ call.status = "running" => k = Invocations(call.log) /\ k <= N
            /\ call.status = "returned" =>
                  /\ k <= N
                  /\ Invocations(call.log) = k + 1
                  /\ call.log[Len(call.log)] = "ok"
            /\ call.status = "raised" =>
                  /\ k = N + 1
                  /\ Invocations(call.log) = N + 1
                  /\ call.raised.type = "RetryExhaustedError"

\* max_retries = 3: two retryable failures (one of them carrying a code), then a
\* success returned by the third invocation
C26_Witness ==
    /\ call.exec = "util" /\ call.max_retries = 3
    /\ call.status = "returned"
    /\ call.log = <<"API-1003", "sleep", "RequestException", "sleep", "ok">>
    /\ Invocations(call.log) = 3

\* max_retries = 2: three failures, RetryExhaustedError
C26_WitnessExhausted ==
    /\ call.exec = "util" /\ call.max_retries = 2
    /\ call.status = "raised" /\ call.raised.type = "RetryExhaustedError"
    /\ Invocations(call.log) = 3

(***************************************************************************)
(* C32: orders created by one call                                         *)
(***************************************************************************)
\* C32: one call of _make_api_call(futures_create_order), which is what one call of
\* place_market_order, place_limit_order or place_stop_limit_order makes, creates at
\* most one order on the exchange, also when an attempt ends in a transient network
\* error after the exchange processed the request and the executor retries.
C32_AtMostOneOrderCreated ==
    (call.exec = "bot" /\ call.func = "futures_create_order") => call.created <= 1

(***************************************************************************)
(* C33: _make_api_call terminates within its attempts                      *)
(***************************************************************************)
\* how many times the call slept
Sleeps(log) == Cardinality({i \in DOMAIN log : log[i] = "sleep"})

\* what holds of a call of _make_api_call at every moment
BotCallWithinAttempts ==
    call.exec = "bot" =>
        /\ Invocations(call.log) <= call.max_retries + 1
        /\ Sleeps(call.log) <= call.max_retries
        /\ Len(call.sleeps) = Sleeps(call.log)
        /\ call.status = "returned" =>
              /\ call.log[Len(call.log)] = "ok"
              /\ Cardinality({i \in DOMAIN call.log : call.log[i] = "ok"}) = 1
        /\ call.status = "raised" =>
              /\ call.log[Len(call.log)] \in Errors
              /\ \A i \in DOMAIN call.log : call.log[i] # "ok"
        /\ call.status = "running" =>
              (call.log = <<>> \/ call.log[Len(call.log)] = "sleep")

\* C33: for every max_retries >= 0 and every sequence of failures, _make_api_call
\* ends by returning the result of a successful invocation or by raising; it
\* invokes the operation at most max_retries + 1 times, sleeps at most max_retries
\* times, never sleeps after the final failed attempt and never returns without a
\* successful invocation.
C33_BotCallTerminates ==
    /\ []BotCallWithinAttempts
    /\ (call.exec = "bot" /\ call.status = "running")
          ~> (call.exec = "bot" /\ call.status \in {"returned", "raised"})

\* max_retries = 3: four invocations failed, three sleeps, and the call raised
\* with the failure last in the log
C33_Witness ==
    /\ call.exec = "bot" /\ call.max_retries = 3
    /\ call.status = "raised"
    /\ Invocations(call.log) = 4
    /\ Sleeps(call.log) = 3
    /\ call.log[Len(call.log)] = "RequestException"

(***************************************************************************)
(* C34: the two retry loops on the same error                              *)
(***************************************************************************)
\* the executor `exec` retries error e when attempts remain
RetriedBy(exec, e) ==
    IF exec = "bot" THEN BotDisposition(e) # "raise" ELSE ~UtilNoRetry(e)

OtherExecutor(exec) == IF exec = "bot" THEN "util" ELSE "bot"

\* C34: the two retry implementations classify errors identically: an error that
\* one of them has retried is one the other retries too, and an error that one of
\* them has raised with attempts remaining is one the other raises too.
C34_SameClassification ==
    call.exec \in {"bot", "util"} =>
        /\ \A i \in FailedAt(call.log) :
              i < Len(call.log) => RetriedBy(OtherExecutor(call.exec), call.log[i])
        /\ (call.status = "raised" /\ call.attempt < call.max_retries)
              => ~RetriedBy(OtherExecutor(call.exec), call.raised.of)

(***************************************************************************)
(* RateLimiter.acquire() called by several threads at once: the method     *)
(* takes no lock, so its statements interleave.                            *)
(***************************************************************************)
Acquirers == {1, 2}

Idle == [pc |-> "idle", now |-> 0]

\* now = time.time()
AcquireReadsClock(t) ==
    /\ acq[t].pc = "idle"
    /\ Len(admitted) <= MaxRequests
    /\ acq' = [acq EXCEPT ![t] = [pc |-> "prune", now |-> now]]
    /\ UNCHANGED <<max_requests, time_window, requests, now, admitted, rlLast>>
    /\ UNCHANGED exVars
    /\ UNCHANGED ordVars
    /\ UNCHANGED thrVars

\* self.requests = [req_time for req_time in self.requests if now - req_time < ...]
AcquirePrunes(t) ==
    /\ acq[t].pc = "prune"
    /\ requests' = Prune(requests, acq[t].now)
    /\ acq' = [acq EXCEPT ![t].pc = "check"]
    /\ UNCHANGED <<max_requests, time_window, now, admitted, rlLast>>
    /\ UNCHANGED exVars
    /\ UNCHANGED ordVars
    /\ UNCHANGED thrVars

\* if len(self.requests) >= self.max_requests: return False
AcquireChecks(t) ==
    /\ acq[t].pc = "check"
    /\ IF AtLimit(requests)
       THEN /\ acq' = [acq EXCEPT ![t] = Idle]
            /\ rlLast' = [op |-> "acquire", ret |-> FALSE, at |-> acq[t].now]
       ELSE /\ acq' = [acq EXCEPT ![t].pc = "append"]
            /\ UNCHANGED rlLast
    /\ UNCHANGED <<max_requests, time_window, requests, now, admitted>>
    /\ UNCHANGED exVars
    /\ UNCHANGED ordVars
    /\ UNCHANGED thrVars

\* self.requests.append(now); return True
AcquireAppends(t) ==
    /\ acq[t].pc = "append"
    /\ requests' = Append(requests, acq[t].now)
    /\ admitted' = Append(admitted, acq[t].now)
    /\ rlLast' = [op |-> "acquire", ret |-> TRUE, at |-> acq[t].now]
    /\ acq' = [acq EXCEPT ![t] = Idle]
    /\ UNCHANGED <<max_requests, time_window, now>>
    /\ UNCHANGED exVars
    /\ UNCHANGED ordVars
    /\ UNCHANGED thrVars

ConcInit ==
    /\ max_requests \in 1..MaxRequests
    /\ time_window \in 1..MaxWindow
    /\ requests = <<>>
    /\ now = 0
    /\ admitted = <<>>
    /\ rlLast = NoCall
    /\ acq = [t \in Acquirers |-> Idle]
    /\ open_orders = {}
    /\ running = <<>>
    /\ time_offset = 0
    /\ lastSynced = 0
    /\ call = NoApiCall
    /\ symbol_filters = <<>>
    /\ ticker_price = <<>>
    /\ out = NoOut
    /\ exchange_info = <<>>
    /\ active_orders = <<>>
    /\ next_order_id = 1
    /\ intent = NoOut

ConcNext ==
    \/ Tick
    \/ \E t \in Acquirers : AcquireReadsClock(t)
    \/ \E t \in Acquirers : AcquirePrunes(t)
    \/ \E t \in Acquirers : AcquireChecks(t)
    \/ \E t \in Acquirers : AcquireAppends(t)

SpecConc == ConcInit /\ [][ConcNext]_vars

\* C30: over every interleaving of concurrent acquire() calls, the calls that
\* returned True with timestamps inside any interval of length time_window never
\* number more than max_requests.
C30_ExclusiveAdmission ==
    \A t \in 0..MaxTime :
        CountIn(admitted, LAMBDA r : t <= r /\ r < t + time_window) <= max_requests

(***************************************************************************)
(* Truth values of optional arguments                                      *)
(***************************************************************************)
\* Python's truth value of an optional number: neither None nor zero
Truthy(o) == o # None /\ o[1] # 0

(***************************************************************************)
(* The complete runs of BasicBot._make_api_call, for the handlers that     *)
(* call it: what the run ends with ("ok" or the error it raises), the      *)
(* time_offset it leaves, and how many times it invoked func.              *)
(***************************************************************************)
DefaultMaxRetries == 3

\* the clock after _sync_time_with_binance, whose get_server_time() gave res, ran on clock c
Resynced(res, c) ==
    [off |-> SyncTimeWithBinance(res, c.off), synced |-> IF res.ok THEN res.skew ELSE c.synced]

\* the runs from attempt number `attempt` on, the clock being one of `clocks` there
RECURSIVE BotRuns(_, _, _)
BotRuns(attempt, m, clocks) ==
    LET last    == attempt >= m
        raising == {e \in Errors : BotDisposition(e) = "raise" \/ last}
        here    == {[res |-> r, off |-> c.off, synced |-> c.synced, n |-> attempt + 1]
                      : r \in {"ok"} \cup raising, c \in clocks}
        backoff == IF \E e \in Errors : BotDisposition(e) = "backoff" THEN clocks ELSE {}
        resync  == IF \E e \in Errors : BotDisposition(e) = "resync"
                   THEN {Resynced(res, c) : res \in SyncResults, c \in clocks} ELSE {}
    IN  IF last \/ backoff \cup resync = {} THEN here
        ELSE here \cup BotRuns(attempt + 1, m, backoff \cup resync)

\* the runs of _make_api_call(func) with the default max_retries
MakeApiCall(clock) == BotRuns(0, DefaultMaxRetries, {clock})

\* get_symbol_price(symbol): the runs of _make_api_call(futures_symbol_ticker) by
\* their result and the clock they leave
GetSymbolPrice(clock) ==
    {[res |-> r.res, off |-> r.off, synced |-> r.synced] : r \in MakeApiCall(clock)}

\* the clock of the bot
Clock == [off |-> time_offset, synced |-> lastSynced]

\* no call of _make_api_call was made
NoRun == [res |-> "ok", off |-> time_offset, synced |-> lastSynced, n |-> 0]

(***************************************************************************)
(* utils.validate_filters                                                  *)
(***************************************************************************)
Accept == [ok |-> TRUE, why |-> "none"]
Reject(why) == [ok |-> FALSE, why |-> why]

\* validate_filters(params, symbol_info), filters being symbol_info's filters by type
ValidateFilters(params, filters) ==
    LET quantity == IF params.quantity = None THEN 0 ELSE params.quantity[1]
        hasPrice == Truthy(params.price)
        price    == IF hasPrice THEN params.price[1] ELSE 0
        lot      == filters["LOT_SIZE"]
        pf       == filters["PRICE_FILTER"]
        mn       == filters["MIN_NOTIONAL"]
    IN  IF "LOT_SIZE" \in DOMAIN filters /\ quantity < lot.minQty
        THEN Reject("Quantity below minimum")
        ELSE IF "LOT_SIZE" \in DOMAIN filters /\ quantity > lot.maxQty
        THEN Reject("Quantity above maximum")
        ELSE IF "LOT_SIZE" \in DOMAIN filters /\ (quantity - lot.minQty) % lot.stepSize # 0
        THEN Reject("Quantity not aligned with step size")
        ELSE IF hasPrice /\ "PRICE_FILTER" \in DOMAIN filters /\ price < pf.minPrice
        THEN Reject("Price below minimum")
        ELSE IF hasPrice /\ "PRICE_FILTER" \in DOMAIN filters /\ price > pf.maxPrice
        THEN Reject("Price above maximum")
        ELSE IF hasPrice /\ "PRICE_FILTER" \in DOMAIN filters
                /\ (price - pf.minPrice) % pf.tickSize # 0
        THEN Reject("Price not aligned with tick size")
        ELSE IF "MIN_NOTIONAL" \in DOMAIN filters /\ hasPrice /\ "minNotional" \notin DOMAIN mn
        THEN Reject("Filter validation error")
        ELSE IF "MIN_NOTIONAL" \in DOMAIN filters /\ hasPrice
                /\ quantity * price < mn.minNotional
        THEN Reject("Notional value below minimum")
        ELSE Accept

(***************************************************************************)
(* BasicBot._validate_order_params and BasicBot.get_symbol_price           *)
(***************************************************************************)
\* _validate_order_params applies the notional filter
HasMinNotional(filters) ==
    "MIN_NOTIONAL" \in DOMAIN filters /\ "minNotional" \in DOMAIN filters["MIN_NOTIONAL"]

\* the checks of _validate_order_params that come before the notional check
BotFilterChecks(sf, symbol, quantity, price) ==
    IF symbol \notin DOMAIN sf THEN Reject("No filters found for symbol")
    ELSE
    LET filters == sf[symbol]
        lot     == filters["LOT_SIZE"]
        pf      == filters["PRICE_FILTER"]
        checked == price # None /\ "PRICE_FILTER" \in DOMAIN filters
    IN  IF "LOT_SIZE" \in DOMAIN filters
           /\ (quantity < lot.minQty \/ quantity > lot.maxQty)
        THEN Reject("Quantity outside allowed range")
        ELSE IF "LOT_SIZE" \in DOMAIN filters /\ quantity % lot.stepSize # 0
        THEN Reject("Quantity doesn't comply with step size")
        ELSE IF checked /\ (price[1] < pf.minPrice \/ price[1] > pf.maxPrice)
        THEN Reject("Price outside allowed range")
        ELSE IF checked /\ price[1] % pf.tickSize # 0
        THEN Reject("Price doesn't comply with tick size")
        ELSE Accept

\* _validate_order_params calls get_symbol_price: the earlier checks passed, the
\* notional filter applies, and `price if price else ...` takes the else branch
AsksTicker(sf, symbol, quantity, price) ==
    /\ BotFilterChecks(sf, symbol, quantity, price).ok
    /\ HasMinNotional(sf[symbol])
    /\ ~Truthy(price)

\* _validate_order_params(symbol, quantity, price); run is the run of the
\* _make_api_call inside get_symbol_price, used only when AsksTicker
ValidateOrderParams(sf, symbol, quantity, price, run) ==
    LET pre == BotFilterChecks(sf, symbol, quantity, price)
    IN  IF ~pre.ok THEN pre
        ELSE IF ~HasMinNotional(sf[symbol]) THEN Accept
        ELSE IF ~Truthy(price) /\ run.res # "ok"
        THEN Reject("Error validating order parameters")
        ELSE IF quantity * (IF Truthy(price) THEN price[1] ELSE ticker_price[symbol])
                   < sf[symbol]["MIN_NOTIONAL"].minNotional
        THEN Reject("Order notional below minimum")
        ELSE Accept

(***************************************************************************)
(* The validators as functions of their arguments                          *)
(***************************************************************************)
MaxQty == 5
MaxPrice == 5

\* the filter lists the exchange may publish for a symbol
LotSizes == {[minQty |-> a, maxQty |-> MaxQty - 1, stepSize |-> b] : a \in 1..2, b \in 1..2}
PriceFilters == {[minPrice |-> a, maxPrice |-> MaxPrice - 1, tickSize |-> b] : a \in 1..2, b \in 1..2}
MinNotionals == {[minNotional |-> 4]}

FilterLists ==
    {[t \in {"LOT_SIZE", "PRICE_FILTER"} |->
         IF t = "LOT_SIZE" THEN l ELSE f] : l \in LotSizes, f \in PriceFilters}
    \cup
    {[t \in {"LOT_SIZE", "PRICE_FILTER", "MIN_NOTIONAL"} |->
         IF t = "LOT_SIZE" THEN l ELSE IF t = "PRICE_FILTER" THEN f ELSE n]
       : l \in LotSizes, f \in PriceFilters, n \in MinNotionals}
    \cup {[t \in {"LOT_SIZE"} |-> l] : l \in LotSizes}

ValInit ==
    /\ \E fl \in FilterLists : symbol_filters = [s \in {"BTCUSDT"} |-> fl]
    /\ ticker_price = [s \in {"BTCUSDT"} |-> 2]
    /\ out = NoOut
    /\ exchange_info = [s \in {"BTCUSDT"} |-> [status |-> "TRADING"]]
    /\ active_orders = <<>>
    /\ next_order_id = 1
    /\ intent = NoOut
    /\ \E res \in SyncResults :
          /\ time_offset = SyncTimeWithBinance(res, 0)
          /\ lastSynced = IF res.ok THEN res.skew ELSE 0
    /\ call = NoApiCall
    /\ max_requests = 1
    /\ time_window = 1
    /\ requests = <<>>
    /\ now = 0
    /\ admitted = <<>>
    /\ rlLast = NoCall
    /\ acq = <<>>
    /\ open_orders = {}
    /\ running = <<>>

\* the symbols the validators are asked about: XRPUSDT has no cached filters
ValSymbols == {"BTCUSDT", "XRPUSDT"}

\* symbol_info.get('filters', []) by filter type: empty for a symbol without filters
FiltersOf(symbol) ==
    IF symbol \in DOMAIN symbol_filters THEN symbol_filters[symbol] ELSE <<>>

\* the lookup `symbol not in self.symbol_filters` of _validate_order_params, with the
\* number of _initialize_exchange_info calls it makes: a miss returns False at once
LookupFilters(symbol) ==
    IF symbol \in DOMAIN symbol_filters THEN [found |-> TRUE, reloads |-> 0]
    ELSE [found |-> FALSE, reloads |-> 0]

\* validate_filters({'quantity': q, 'price': p}, symbol_info)
CallValidateFilters ==
    /\ \E s \in ValSymbols, q \in 0..MaxQty, p \in {None} \cup {Some(x) : x \in 0..MaxPrice} :
          LET r == ValidateFilters([quantity |-> Some(q), price |-> p], FiltersOf(s))
          IN  out' = [op |-> "validate_filters", symbol |-> s, quantity |-> q, price |-> p,
                      ok |-> r.ok, why |-> r.why, ticker |-> "none", reloads |-> 0]
    /\ UNCHANGED <<symbol_filters, ticker_price, exchange_info, active_orders, next_order_id, intent>>
    /\ UNCHANGED rlVars
    /\ UNCHANGED thrVars
    /\ UNCHANGED exVars

\* bot._validate_order_params(s, q, p)
CallValidateOrderParams ==
    /\ \E s \in ValSymbols, q \in 0..MaxQty, p \in {None} \cup {Some(x) : x \in 0..MaxPrice} :
          \E run \in IF AsksTicker(symbol_filters, s, q, p) THEN GetSymbolPrice(Clock)
                                                             ELSE {NoRun} :
             LET r == ValidateOrderParams(symbol_filters, s, q, p, run)
             IN  /\ out' = [op |-> "_validate_order_params", symbol |-> s, quantity |-> q,
                            price |-> p, ok |-> r.ok, why |-> r.why,
                            ticker |-> IF AsksTicker(symbol_filters, s, q, p)
                                       THEN run.res ELSE "none",
                            reloads |-> LookupFilters(s).reloads]
                 /\ time_offset' = run.off
                 /\ lastSynced' = run.synced
    /\ UNCHANGED <<symbol_filters, ticker_price, exchange_info, active_orders, next_order_id, intent>>
    /\ UNCHANGED call
    /\ UNCHANGED rlVars
    /\ UNCHANGED thrVars

ValNext == CallValidateFilters \/ CallValidateOrderParams

SpecValidate == ValInit /\ [][ValNext]_vars

(***************************************************************************)
(* C9, C10: quantity and price validation                                  *)
(***************************************************************************)
QuantityBoundReasons ==
    {"Quantity below minimum", "Quantity above maximum", "Quantity outside allowed range"}
QuantityReasons ==
    QuantityBoundReasons
       \cup {"Quantity not aligned with step size", "Quantity doesn't comply with step size"}
PriceBoundReasons ==
    {"Price below minimum", "Price above maximum", "Price outside allowed range"}
PriceReasons ==
    PriceBoundReasons
       \cup {"Price not aligned with tick size", "Price doesn't comply with tick size"}

\* C9: both validators accept every quantity q with minQty <= q <= maxQty and
\* (q - minQty) mod stepSize = 0, and reject every q below minQty or above maxQty with
\* a reason that names the bound.
C9_LotSizeValidation ==
    (out.op \in {"validate_filters", "_validate_order_params"} /\ out.symbol = "BTCUSDT") =>
        LET lot == symbol_filters["BTCUSDT"]["LOT_SIZE"]
            q   == out.quantity
        IN  /\ (lot.minQty <= q /\ q <= lot.maxQty /\ (q - lot.minQty) % lot.stepSize = 0) =>
                  out.why \notin QuantityReasons
            /\ q < lot.minQty =>
                  out.why \in {"Quantity below minimum", "Quantity outside allowed range"}
            /\ q > lot.maxQty =>
                  out.why \in {"Quantity above maximum", "Quantity outside allowed range"}

\* C10: with a PRICE_FILTER, both validators accept a present (positive) price p of an
\* order whose quantity passed exactly when minPrice <= p <= maxPrice and
\* (p - minPrice) mod tickSize = 0, and a price outside the bounds is rejected for the
\* bound, whatever its alignment.
C10_PriceFilterValidation ==
    (/\ out.op \in {"validate_filters", "_validate_order_params"}
     /\ out.symbol = "BTCUSDT"
     /\ "PRICE_FILTER" \in DOMAIN symbol_filters["BTCUSDT"]
     /\ Truthy(out.price)
     /\ out.why \notin QuantityReasons) =>
        LET pf == symbol_filters["BTCUSDT"]["PRICE_FILTER"]
            p  == out.price[1]
            inBounds == pf.minPrice <= p /\ p <= pf.maxPrice
            aligned  == (p - pf.minPrice) % pf.tickSize = 0
        IN  /\ (inBounds /\ aligned) <=> out.why \notin PriceReasons
            /\ ~inBounds => out.why \in PriceBoundReasons

(***************************************************************************)
(* C35: the two filter validators on the same order                        *)
(***************************************************************************)
AlignmentReasons ==
    {"Quantity not aligned with step size", "Quantity doesn't comply with step size",
     "Price not aligned with tick size", "Price doesn't comply with tick size"}

\* C35: for an order whose quantity and price lie within the bounds of the symbol's
\* LOT_SIZE and PRICE_FILTER, whichever validator has just run accepted the step
\* and tick alignment exactly when the other validator accepts it on the same
\* filters, also when minQty is no multiple of stepSize or minPrice no multiple of
\* tickSize.
C35_ValidatorsAgreeOnAlignment ==
    (/\ out.op \in {"validate_filters", "_validate_order_params"}
     /\ out.symbol = "BTCUSDT"
     /\ {"LOT_SIZE", "PRICE_FILTER"} \subseteq DOMAIN symbol_filters["BTCUSDT"]
     /\ Truthy(out.price)
     /\ LET lot == symbol_filters["BTCUSDT"]["LOT_SIZE"]
            pf  == symbol_filters["BTCUSDT"]["PRICE_FILTER"]
        IN  /\ lot.minQty <= out.quantity /\ out.quantity <= lot.maxQty
            /\ pf.minPrice <= out.price[1] /\ out.price[1] <= pf.maxPrice) =>
        LET bot   == BotFilterChecks(symbol_filters, out.symbol, out.quantity, out.price)
            utils == ValidateFilters([quantity |-> Some(out.quantity), price |-> out.price],
                                     FiltersOf(out.symbol))
        IN  /\ out.why \in {bot.why, utils.why}
            /\ (bot.why \in AlignmentReasons) <=> (utils.why \in AlignmentReasons)

(***************************************************************************)
(* C11..C14: the notional check and the filter cache                       *)
(***************************************************************************)
\* the validator was asked about a symbol with a usable minimum-notional filter
NotionalApplies ==
    /\ out.op \in {"validate_filters", "_validate_order_params"}
    /\ out.symbol \in DOMAIN symbol_filters
    /\ HasMinNotional(symbol_filters[out.symbol])

\* C11: when _validate_order_params has to fetch the market price for the notional
\* check (minimum-notional filter, no price, all earlier checks passed) and the fetch
\* fails, the notional check is skipped and the order is accepted.
C11_TickerFailureSkipsNotional ==
    (out.op = "_validate_order_params" /\ out.ticker \notin {"none", "ok"}) => out.ok

\* C12: with a minimum-notional filter and the effective price available (the price
\* of the order if present, else the market price, whose fetch did not fail), both
\* validators accept only if quantity * effectivePrice >= minNotional, for priced
\* and for market orders.
C12_NotionalRule ==
    (NotionalApplies /\ out.ticker \in {"none", "ok"} /\ out.ok) =>
        LET effectivePrice == IF out.price # None THEN out.price[1]
                              ELSE ticker_price[out.symbol]
        IN  out.quantity * effectivePrice
               >= symbol_filters[out.symbol]["MIN_NOTIONAL"].minNotional

\* C13: for a symbol without cached filters both validators reject.
C13_FailsClosed ==
    (/\ out.op \in {"validate_filters", "_validate_order_params"}
     /\ out.symbol \notin DOMAIN symbol_filters) => ~out.ok

\* C14: a lookup of a symbol that is not in the filter cache reloads the exchange
\* metadata exactly once before the failure is surfaced.
C14_OneReloadOnMiss ==
    (out.op = "_validate_order_params" /\ out.symbol \notin DOMAIN symbol_filters) =>
        out.reloads = 1

(***************************************************************************)
(* utils.validate_order_parameters                                         *)
(***************************************************************************)
ValidOrderTypes ==
    {"MARKET", "LIMIT", "STOP_MARKET", "STOP", "TAKE_PROFIT_MARKET", "TAKE_PROFIT",
     "TRAILING_STOP_MARKET"}

ValidationError(msg) == [result |-> "raised", exc |-> "ValidationError", msg |-> msg]

\* the params dictionary validate_order_parameters returns; an absent key is None
ValidatedParams(a) ==
    [symbol      |-> a.symbol,
     side        |-> a.side,
     type        |-> a.order_type,
     quantity    |-> a.quantity,
     price       |-> IF a.order_type = "MARKET" THEN None ELSE a.price,
     stopPrice   |-> a.stop_price,
     timeInForce |-> IF a.order_type = "MARKET" THEN None
                     ELSE IF a.order_type \in {"LIMIT", "STOP", "TAKE_PROFIT"}
                             /\ a.time_in_force = None
                     THEN Some("GTC") ELSE a.time_in_force]

\* validate_order_parameters(symbol, side, order_type, quantity, price, time_in_force,
\* stop_price) on numeric arguments
ValidateOrderParameters(a) ==
    IF a.symbol = "" THEN ValidationError("Symbol must be a non-empty string")
    ELSE IF a.side \notin {"BUY", "SELL"} THEN ValidationError("Side must be one of")
    ELSE IF a.order_type \notin ValidOrderTypes
    THEN ValidationError("Order type must be one of")
    ELSE IF a.quantity # None /\ a.quantity[1] <= 0
    THEN ValidationError("Quantity must be positive")
    ELSE IF a.price # None /\ a.price[1] <= 0
    THEN ValidationError("Price must be positive")
    ELSE IF a.stop_price # None /\ a.stop_price[1] <= 0
    THEN ValidationError("Stop price must be positive")
    ELSE IF a.time_in_force # None /\ a.time_in_force[1] \notin {"GTC", "IOC", "FOK", "GTX"}
    THEN ValidationError("Time in force must be one of")
    ELSE IF a.order_type \in {"LIMIT", "STOP", "TAKE_PROFIT"} /\ a.price = None
    THEN ValidationError("orders require price")
    ELSE IF a.order_type \in {"STOP_MARKET", "STOP", "TAKE_PROFIT_MARKET", "TAKE_PROFIT"}
            /\ a.stop_price = None
    THEN ValidationError("orders require stop price")
    ELSE [result |-> "returned", exc |-> "none", msg |-> "none", params |-> ValidatedParams(a)]

\* the arguments of the callers of validate_order_parameters
Amounts == {None, Some(0), Some(1)}
ParameterSets ==
    [op : {"validate_order_parameters"}, symbol : {"BTCUSDT", ""}, side : {"BUY", "HOLD"},
     order_type : ValidOrderTypes \cup {"OCO"}, quantity : Amounts, price : Amounts,
     stop_price : Amounts, time_in_force : {None, Some("GTC"), Some("DAY")}]

ParamInit ==
    /\ intent \in ParameterSets
    /\ out = NoOut
    /\ symbol_filters = <<>>
    /\ ticker_price = <<>>
    /\ exchange_info = <<>>
    /\ active_orders = <<>>
    /\ next_order_id = 1
    /\ time_offset = 0
    /\ lastSynced = 0
    /\ call = NoApiCall
    /\ max_requests = 1
    /\ time_window = 1
    /\ requests = <<>>
    /\ now = 0
    /\ admitted = <<>>
    /\ rlLast = NoCall
    /\ acq = <<>>
    /\ open_orders = {}
    /\ running = <<>>

\* validate_order_parameters(**intent)
CallValidateOrderParameters ==
    /\ intent.op = "validate_order_parameters"
    /\ out' = ValidateOrderParameters(intent)
    /\ UNCHANGED <<symbol_filters, ticker_price, exchange_info, active_orders, next_order_id, intent>>
    /\ UNCHANGED exVars
    /\ UNCHANGED rlVars
    /\ UNCHANGED thrVars

ParamNext == CallValidateOrderParameters

SpecParams == ParamInit /\ [][ParamNext]_vars

\* the OrderIntent invariant: LIMIT, STOP and TAKE_PROFIT have a price; STOP,
\* STOP_MARKET, TAKE_PROFIT and TAKE_PROFIT_MARKET have a stop price; the quantity and
\* every present price and stop price are strictly positive
OrderIntentInvariant ==
    /\ intent.order_type \in {"LIMIT", "STOP", "TAKE_PROFIT"} => intent.price # None
    /\ intent.order_type \in {"STOP", "STOP_MARKET", "TAKE_PROFIT", "TAKE_PROFIT_MARKET"}
          => intent.stop_price # None
    /\ intent.quantity # None /\ intent.quantity[1] > 0
    /\ intent.price # None => intent.price[1] > 0
    /\ intent.stop_price # None => intent.stop_price[1] > 0

\* C15: validate_order_parameters returns normally only for intents that satisfy the
\* OrderIntent invariant, and raises ValidationError for every other intent.
C15_ReturnsOnlyValidIntents ==
    out # NoOut =>
        /\ out.result = "returned" => OrderIntentInvariant
        /\ ~OrderIntentInvariant => (out.result = "raised" /\ out.exc = "ValidationError")

\* C15 for intents that name a quantity: the same statement holds
C15_WithQuantityPresent ==
    (out # NoOut /\ intent.quantity # None) =>
        /\ out.result = "returned" => OrderIntentInvariant
        /\ ~OrderIntentInvariant => (out.result = "raised" /\ out.exc = "ValidationError")

(***************************************************************************)
(* The order entry points: BasicBot.place_market_order,                    *)
(* BasicBot.place_limit_order, OrderManager.place_stop_limit_order.        *)
(* Each is one action on the caller's intent; the _make_api_call loops it  *)
(* runs are drawn from MakeApiCall.                                        *)
(***************************************************************************)
MaxOrders == 2

Pass == [result |-> "pass", exc |-> "none", msg |-> "none"]
Raise(exc, msg) == [result |-> "raised", exc |-> exc, msg |-> msg]
NoOrder == [orderId |-> 0, status |-> "none"]

\* the clock a run leaves
ClockOf(run) == [off |-> run.off, synced |-> run.synced]

\* validate_symbol never fails to list the symbol as tradeable
ValidateSymbolAlways(symbol) == TRUE

\* BasicBot.validate_symbol (exchange_info is loaded by the constructor)
ValidateSymbol(symbol) ==
    symbol \in DOMAIN exchange_info /\ exchange_info[symbol].status = "TRADING"

\* the checks of place_market_order; run is the run inside get_symbol_price
MarketChecks(i, run) ==
    IF i.side \notin {"BUY", "SELL"} THEN Raise("ValueError", "Invalid side")
    ELSE IF ~ValidateSymbol(i.symbol)
    THEN Raise("ValueError", "Invalid or non-tradeable symbol")
    ELSE IF ~ValidateOrderParams(symbol_filters, i.symbol, i.quantity, None, run).ok
    THEN Raise("ValueError", "Order parameters failed validation")
    ELSE Pass

\* the checks of place_limit_order; run is the run inside get_symbol_price
LimitChecks(i, run) ==
    IF i.side \notin {"BUY", "SELL"} THEN Raise("ValueError", "Invalid side")
    ELSE IF i.time_in_force \notin {"GTC", "IOC", "FOK"}
    THEN Raise("ValueError", "Invalid time_in_force")
    ELSE IF ~ValidateSymbol(i.symbol)
    THEN Raise("ValueError", "Invalid or non-tradeable symbol")
    ELSE IF ~ValidateOrderParams(symbol_filters, i.symbol, i.quantity, i.price, run).ok
    THEN Raise("ValueError", "Order parameters failed validation")
    ELSE Pass

\* the price relations with a stop price at the market price let through
StopLimitRelationsAtMarket(side, price, stop_price, current) ==
    IF side = "BUY"
    THEN IF stop_price < current \/ price < stop_price
         THEN Raise("ValueError", "Buy order rejected") ELSE Pass
    ELSE IF stop_price > current \/ price > stop_price
         THEN Raise("ValueError", "Sell order rejected") ELSE Pass

\* the price relations of _validate_stop_limit_params, current being the ticker's price
StopLimitRelations(side, price, stop_price, current) ==
    IF side = "BUY"
    THEN IF stop_price <= current
         THEN Raise("ValueError", "Buy stop price must be above current price")
         ELSE IF price < stop_price
         THEN Raise("ValueError", "Buy limit price should be >= stop price")
         ELSE Pass
    ELSE IF stop_price >= current
         THEN Raise("ValueError", "Sell stop price must be below current price")
         ELSE IF price > stop_price
         THEN Raise("ValueError", "Sell limit price should be <= stop price")
         ELSE Pass

\* _validate_stop_limit_params reaches get_symbol_price: both filter validations passed
StopLimitFiltersPass(symbol, quantity, price, stop_price) ==
    /\ ValidateOrderParams(symbol_filters, symbol, quantity, Some(price), NoRun).ok
    /\ ValidateOrderParams(symbol_filters, symbol, quantity, Some(stop_price), NoRun).ok

\* OrderManager._validate_stop_limit_params; run is the run inside get_symbol_price
ValidateStopLimitParams(symbol, side, quantity, price, stop_price, run) ==
    IF ~ValidateOrderParams(symbol_filters, symbol, quantity, Some(price), NoRun).ok
    THEN Raise("ValueError", "Basic order parameters failed validation")
    ELSE IF ~ValidateOrderParams(symbol_filters, symbol, quantity, Some(stop_price), NoRun).ok
    THEN Raise("ValueError", "Stop price failed validation against price filters")
    ELSE IF run.res # "ok" THEN Raise(ExcType(run.res), run.res)
    ELSE StopLimitRelations(side, price, stop_price, ticker_price[symbol])

\* the checks of place_stop_limit_order that come before _validate_stop_limit_params
StopLimitArgChecks(i) ==
    IF i.side \notin {"BUY", "SELL"} THEN Raise("ValueError", "Invalid side")
    ELSE IF i.time_in_force \notin {"GTC", "IOC", "FOK"}
    THEN Raise("ValueError", "Invalid time_in_force")
    ELSE IF i.quantity <= 0 THEN Raise("ValueError", "Quantity must be positive")
    ELSE IF i.price[1] <= 0 \/ i.stop_price[1] <= 0
    THEN Raise("ValueError", "Price and stop_price must be positive")
    ELSE IF ~ValidateSymbol(i.symbol)
    THEN Raise("ValueError", "Invalid or non-tradeable symbol")
    ELSE Pass

\* the checks of place_stop_limit_order
StopLimitChecks(i, run) ==
    IF StopLimitArgChecks(i) # Pass THEN StopLimitArgChecks(i)
    ELSE ValidateStopLimitParams(i.symbol, i.side, i.quantity, i.price[1], i.stop_price[1], run)

\* the entry in active_orders that place_stop_limit_order writes
Snapshot(i, status) ==
    [symbol |-> i.symbol, side |-> i.side, type |-> "STOP_LIMIT", quantity |-> i.quantity,
     price |-> i.price[1], stop_price |-> i.stop_price[1], status |-> status,
     time_in_force |-> i.time_in_force, reduce_only |-> i.reduce_only]

\* the entry point raised v without calling futures_create_order
Rejected(op, v, run) ==
    /\ out' = [op |-> op, result |-> "raised", exc |-> v.exc, msg |-> v.msg,
               creates |-> 0, order |-> NoOrder]
    /\ time_offset' = run.off
    /\ lastSynced' = run.synced
    /\ UNCHANGED <<active_orders, next_order_id>>

\* _make_api_call(self.client.futures_create_order, ...), and what the entry point
\* does with its result; cached tells whether the order is written to active_orders
Submitted(op, clock, cached) ==
    \E run \in MakeApiCall(clock) :
        /\ time_offset' = run.off
        /\ lastSynced' = run.synced
        /\ IF run.res = "ok"
           THEN \E st \in {"NEW", "FILLED"} :
                /\ out' = [op |-> op, result |-> "returned", exc |-> "none", msg |-> "none",
                           creates |-> run.n,
                           order |-> [orderId |-> next_order_id, status |-> st]]
                /\ next_order_id' = next_order_id + 1
                /\ active_orders' =
                      IF cached THEN (next_order_id :> Snapshot(intent, st)) @@ active_orders
                      ELSE active_orders
           ELSE /\ out' = [op |-> op, result |-> "raised", exc |-> ExcType(run.res),
                           msg |-> run.res, creates |-> run.n, order |-> NoOrder]
                /\ UNCHANGED <<active_orders, next_order_id>>

\* BasicBot.place_market_order(symbol, side, quantity)
PlaceMarketOrder ==
    /\ intent.op = "place_market_order"
    /\ next_order_id <= MaxOrders
    /\ \E run \in IF /\ intent.side \in {"BUY", "SELL"}
                    /\ ValidateSymbol(intent.symbol)
                    /\ AsksTicker(symbol_filters, intent.symbol, intent.quantity, None)
                 THEN GetSymbolPrice(Clock) ELSE {NoRun} :
          IF MarketChecks(intent, run) # Pass
          THEN Rejected("place_market_order", MarketChecks(intent, run), run)
          ELSE Submitted("place_market_order", ClockOf(run), FALSE)
    /\ UNCHANGED <<symbol_filters, ticker_price, exchange_info, intent, call>>
    /\ UNCHANGED rlVars
    /\ UNCHANGED thrVars

\* BasicBot.place_limit_order(symbol, side, quantity, price, time_in_force)
PlaceLimitOrder ==
    /\ intent.op = "place_limit_order"
    /\ next_order_id <= MaxOrders
    /\ \E run \in IF /\ intent.side \in {"BUY", "SELL"}
                    /\ intent.time_in_force \in {"GTC", "IOC", "FOK"}
                    /\ ValidateSymbol(intent.symbol)
                    /\ AsksTicker(symbol_filters, intent.symbol, intent.quantity, intent.price)
                 THEN GetSymbolPrice(Clock) ELSE {NoRun} :
          IF LimitChecks(intent, run) # Pass
          THEN Rejected("place_limit_order", LimitChecks(intent, run), run)
          ELSE Submitted("place_limit_order", ClockOf(run), FALSE)
    /\ UNCHANGED <<symbol_filters, ticker_price, exchange_info, intent, call>>
    /\ UNCHANGED rlVars
    /\ UNCHANGED thrVars

\* OrderManager.place_stop_limit_order(symbol, side, quantity, price, stop_price,
\*                                     time_in_force, reduce_only)
PlaceStopLimitOrder ==
    /\ intent.op = "place_stop_limit_order"
    /\ next_order_id <= MaxOrders
    /\ \E run \in IF /\ StopLimitArgChecks(intent) = Pass
                    /\ StopLimitFiltersPass(intent.symbol, intent.quantity,
                                            intent.price[1], intent.stop_price[1])
                 THEN GetSymbolPrice(Clock) ELSE {NoRun} :
          IF StopLimitChecks(intent, run) # Pass
          THEN Rejected("place_stop_limit_order", StopLimitChecks(intent, run), run)
          ELSE Submitted("place_stop_limit_order", ClockOf(run), TRUE)
    /\ UNCHANGED <<symbol_filters, ticker_price, exchange_info, intent, call>>
    /\ UNCHANGED rlVars
    /\ UNCHANGED thrVars

\* what a call of the order manager leaves in out
Returned(op) ==
    [op |-> op, result |-> "returned", exc |-> "none", msg |-> "none",
     creates |-> 0, order |-> NoOrder]
Raised(op, exc, msg) ==
    [op |-> op, result |-> "raised", exc |-> exc, msg |-> msg,
     creates |-> 0, order |-> NoOrder]

\* the directions with only the take-profit side checked
OcoRelationsTakeProfitOnly(side, price, stop_price, current) ==
    IF side = "BUY"
    THEN IF price <= current
         THEN Raise("ValueError", "Take profit price must be above current price for BUY orders")
         ELSE Pass
    ELSE IF price >= current
         THEN Raise("ValueError", "Take profit price must be below current price for SELL orders")
         ELSE Pass

\* the directions _validate_oco_order demands against the ticker's price
OcoRelations(side, price, stop_price, current) ==
    IF side = "BUY"
    THEN IF price <= current
         THEN Raise("ValueError", "Take profit price must be above current price for BUY orders")
         ELSE IF stop_price >= current
         THEN Raise("ValueError", "Stop price must be below current price for BUY orders")
         ELSE Pass
    ELSE IF price >= current
         THEN Raise("ValueError", "Take profit price must be below current price for SELL orders")
         ELSE IF stop_price <= current
         THEN Raise("ValueError", "Stop price must be above current price for SELL orders")
         ELSE Pass

\* the checks of _validate_oco_order that come before get_symbol_price
OcoArgChecks(o) ==
    IF o.symbol = "" THEN Raise("ValueError", "Symbol is required")
    ELSE IF o.quantity <= 0 THEN Raise("ValueError", "Quantity must be positive")
    ELSE IF o.price <= 0 THEN Raise("ValueError", "Take profit price must be positive")
    ELSE IF o.stop_price <= 0 THEN Raise("ValueError", "Stop price must be positive")
    ELSE IF o.stop_limit_price <= 0 THEN Raise("ValueError", "Stop limit price must be positive")
    ELSE Pass

\* OrderManager._validate_oco_order(oco_order); run is the run inside get_symbol_price
ValidateOcoOrder(o, run) ==
    IF OcoArgChecks(o) # Pass THEN OcoArgChecks(o)
    ELSE IF run.res # "ok" THEN Raise(ExcType(run.res), run.res)
    ELSE OcoRelations(o.side, o.price, o.stop_price, ticker_price[o.symbol])

\* the take-profit leg is accepted by the exchange and the stop-loss leg then fails
OcoTakeProfitLegAccepted ==
    [exc |-> "BinanceAPIException", msg |-> "API-2010", creates |-> 1]

\* the take-profit leg of place_oco_order: self.place_limit_order is looked up on
\* OrderManager, which does not define it, so the leg raises before any request
OcoTakeProfitLeg ==
    [exc |-> "AttributeError",
     msg |-> "'OrderManager' object has no attribute 'place_limit_order'",
     creates |-> 0]

\* OrderManager.place_oco_order(oco_order): once validated, the take-profit leg is
\* asked of self.place_limit_order, which OrderManager does not define
PlaceOcoOrder ==
    /\ intent.op = "place_oco_order"
    /\ \E run \in IF OcoArgChecks(intent) = Pass THEN GetSymbolPrice(Clock) ELSE {NoRun} :
          /\ out' = IF ValidateOcoOrder(intent, run) # Pass
                    THEN Raised("place_oco_order", ValidateOcoOrder(intent, run).exc,
                                ValidateOcoOrder(intent, run).msg)
                    ELSE [Raised("place_oco_order", OcoTakeProfitLeg.exc,
                                 OcoTakeProfitLeg.msg)
                             EXCEPT !.creates = OcoTakeProfitLeg.creates]
          /\ time_offset' = run.off
          /\ lastSynced' = run.synced
    /\ UNCHANGED <<symbol_filters, ticker_price, exchange_info, active_orders,
                   next_order_id, intent, call>>
    /\ UNCHANGED rlVars
    /\ UNCHANGED thrVars

\* the exchange: the market price moves
TickerMoves ==
    /\ \E p \in {50, 51} : ticker_price' = [ticker_price EXCEPT !["BTCUSDT"] = p]
    /\ ticker_price' # ticker_price
    /\ UNCHANGED <<symbol_filters, out, exchange_info, active_orders, next_order_id, intent>>
    /\ UNCHANGED exVars
    /\ UNCHANGED rlVars
    /\ UNCHANGED thrVars

\* the arguments of the model's callers
Symbols == {"BTCUSDT", "ETHUSDT"}
Sides == {"BUY", "SELL", "HOLD"}
TimesInForce == {"GTC", "DAY"}
Quantities == {0, 2, 3, 4}
Prices == 48..52

\* the OCO orders the callers ask for
OcoIntents ==
    [op : {"place_oco_order"}, symbol : {"BTCUSDT"}, side : {"BUY", "SELL"},
     quantity : {2}, price : {49, 50, 51}, stop_price : {49, 51}, stop_limit_price : {49}]
    \cup
    {[op |-> "place_oco_order", symbol |-> s, side |-> "BUY", quantity |-> q,
      price |-> 51, stop_price |-> 49, stop_limit_price |-> l]
        : s \in {"BTCUSDT", ""}, q \in {0, 2}, l \in {0, 49}}

Intents ==
    {[op |-> "place_market_order", symbol |-> s, side |-> d, quantity |-> q, price |-> None,
      stop_price |-> None, time_in_force |-> "GTC", reduce_only |-> FALSE]
        : s \in Symbols, d \in Sides, q \in Quantities}
    \cup
    {[op |-> "place_limit_order", symbol |-> s, side |-> d, quantity |-> q, price |-> Some(p),
      stop_price |-> None, time_in_force |-> t, reduce_only |-> FALSE]
        : s \in Symbols, d \in Sides, q \in Quantities, p \in Prices, t \in TimesInForce}
    \cup
    {[op |-> "place_stop_limit_order", symbol |-> s, side |-> d, quantity |-> q,
      price |-> Some(p[1]), stop_price |-> Some(p[2]), time_in_force |-> t, reduce_only |-> r]
        : s \in Symbols, d \in Sides, q \in Quantities, p \in Prices \X Prices,
          t \in TimesInForce, r \in BOOLEAN}
    \cup OcoIntents

\* the exchange snapshot the constructor loaded: BTCUSDT trades, ETHUSDT is halted
ListedFilters ==
    [t \in {"LOT_SIZE", "PRICE_FILTER", "MIN_NOTIONAL"} |->
        IF t = "LOT_SIZE" THEN [minQty |-> 2, maxQty |-> 4, stepSize |-> 2]
        ELSE IF t = "PRICE_FILTER" THEN [minPrice |-> 49, maxPrice |-> 52, tickSize |-> 1]
        ELSE [minNotional |-> 101]]

OrdInit ==
    /\ exchange_info = [s \in Symbols |->
                           [status |-> IF s = "BTCUSDT" THEN "TRADING" ELSE "BREAK"]]
    /\ symbol_filters = [s \in Symbols |-> ListedFilters]
    /\ ticker_price = [s \in Symbols |-> 50]
    /\ intent \in Intents
    /\ active_orders = <<>>
    /\ next_order_id = 1
    /\ out = NoOut
    /\ \E res \in SyncResults :
          /\ time_offset = SyncTimeWithBinance(res, 0)
          /\ lastSynced = IF res.ok THEN res.skew ELSE 0
    /\ call = NoApiCall
    /\ max_requests = 1
    /\ time_window = 1
    /\ requests = <<>>
    /\ now = 0
    /\ admitted = <<>>
    /\ rlLast = NoCall
    /\ acq = <<>>
    /\ open_orders = {}
    /\ running = <<>>

OrdNext ==
    \/ PlaceMarketOrder \/ PlaceLimitOrder \/ PlaceStopLimitOrder \/ PlaceOcoOrder
    \/ TickerMoves

SpecOrders == OrdInit /\ [][OrdNext]_vars

(***************************************************************************)
(* Claims about the order entry points                                     *)
(***************************************************************************)
\* a step of one of the three entry points
EntryPointStep ==
    /\ vars' # vars /\ ticker_price' = ticker_price
    /\ intent.op \in {"place_market_order", "place_limit_order", "place_stop_limit_order"}

IntentPrices ==
    (IF intent.price = None THEN {} ELSE {intent.price[1]})
    \cup (IF intent.stop_price = None THEN {} ELSE {intent.stop_price[1]})

InvalidSide == intent.side \notin {"BUY", "SELL"}
InvalidTimeInForce ==
    intent.op # "place_market_order" /\ intent.time_in_force \notin {"GTC", "IOC", "FOK"}
NonTradeable ==
    ~(intent.symbol \in DOMAIN exchange_info /\ exchange_info[intent.symbol].status = "TRADING")

\* the intent breaks a filter of the listed symbol: lot size, price filter or
\* minimum notional (at the market price when the intent names no price)
FilterViolation ==
    LET f   == symbol_filters[intent.symbol]
        lot == f["LOT_SIZE"]
        pf  == f["PRICE_FILTER"]
        q   == intent.quantity
    IN  \/ q < lot.minQty \/ q > lot.maxQty \/ q % lot.stepSize # 0
        \/ \E p \in IntentPrices :
              \/ p < pf.minPrice \/ p > pf.maxPrice \/ p % pf.tickSize # 0
              \/ q * p < f["MIN_NOTIONAL"].minNotional
        \/ /\ IntentPrices = {}
           /\ q * ticker_price[intent.symbol] < f["MIN_NOTIONAL"].minNotional

\* the stop-limit ordering rule at the market price
StopLimitRule ==
    LET current == ticker_price[intent.symbol]
        stop    == intent.stop_price[1]
        limit   == intent.price[1]
    IN  IF intent.side = "BUY" THEN stop > current /\ limit >= stop
        ELSE stop < current /\ limit <= stop

OrderingViolation == intent.op = "place_stop_limit_order" /\ ~StopLimitRule

LocalReject ==
    InvalidSide \/ InvalidTimeInForce \/ NonTradeable \/ FilterViolation \/ OrderingViolation

\* C7: whenever an entry point (place_market_order, place_limit_order,
\* place_stop_limit_order) runs on an intent that local validation rejects
\* (invalid side or time in force, non-tradeable symbol, filter violation,
\* stop-limit ordering violation), the call raises, futures_create_order is never
\* requested, and no order is returned or cached.
C7_LocalRejectSendsNothing ==
    [][(EntryPointStep /\ LocalReject) =>
          /\ out'.result = "raised"
          /\ out'.creates = 0
          /\ out'.order = NoOrder
          /\ UNCHANGED <<active_orders, next_order_id>>]_vars

\* a halted symbol was rejected as such, everything else about the intent being valid
C7_Witness ==
    /\ out.op = intent.op
    /\ intent.symbol = "ETHUSDT"
    /\ ~InvalidSide /\ ~InvalidTimeInForce /\ ~FilterViolation
    /\ intent.op = "place_stop_limit_order" => StopLimitRule
    /\ out.result = "raised" /\ out.exc = "ValueError"
    /\ out.msg = "Invalid or non-tradeable symbol"
    /\ out.creates = 0

\* get_symbol_price raised inside the entry point: an error other than ValueError
\* came out before any create request
TickerFailed(o) == o.result = "raised" /\ o.exc # "ValueError" /\ o.creates = 0

C8_WitnessRejected ==
    /\ out.op = "place_stop_limit_order"
    /\ intent.op = "place_stop_limit_order"
    /\ intent.side = "BUY" /\ intent.stop_price = Some(49) /\ intent.price = Some(51)
    /\ intent.quantity = 4 /\ intent.symbol = "BTCUSDT" /\ intent.time_in_force = "GTC"
    /\ out.result = "raised"
    /\ out.msg = "Buy stop price must be above current price"

(***************************************************************************)
(* C16: accepted orders and the cache                                      *)
(***************************************************************************)
\* C16: whenever place_market_order, place_limit_order or place_stop_limit_order
\* returns an order the exchange accepted as open (status NEW), active_orders holds
\* an entry under that order's id with the snapshot of the submitted symbol, side,
\* quantity, price, stop price, status, time in force and reduce-only flag.
C16_OpenOrdersAreCached ==
    (/\ out.op \in {"place_market_order", "place_limit_order", "place_stop_limit_order"}
     /\ out.result = "returned"
     /\ out.order.status = "NEW") =>
        /\ out.order.orderId \in DOMAIN active_orders
        /\ LET e == active_orders[out.order.orderId]
           IN  /\ e.symbol = intent.symbol /\ e.side = intent.side
               /\ e.quantity = intent.quantity
               /\ Some(e.price) = intent.price /\ Some(e.stop_price) = intent.stop_price
               /\ e.status = "NEW"
               /\ e.time_in_force = intent.time_in_force
               /\ e.reduce_only = intent.reduce_only

\* C16 for place_stop_limit_order alone
C16_OpenStopLimitOrdersAreCached ==
    (/\ out.op = "place_stop_limit_order"
     /\ out.result = "returned"
     /\ out.order.status = "NEW") =>
        /\ out.order.orderId \in DOMAIN active_orders
        /\ LET e == active_orders[out.order.orderId]
           IN  /\ e.symbol = intent.symbol /\ e.side = intent.side
               /\ e.quantity = intent.quantity
               /\ Some(e.price) = intent.price /\ Some(e.stop_price) = intent.stop_price
               /\ e.status = "NEW"
               /\ e.time_in_force = intent.time_in_force
               /\ e.reduce_only = intent.reduce_only

(***************************************************************************)
(* OrderManager: the cache of active orders                                *)
(* cancel_order, cancel_all_orders, get_order_status, sync_cached_orders,  *)
(* place_oco_order, next to the placements above.  The caller's requests   *)
(* follow one another: Request hands the next one in.                      *)
(***************************************************************************)
\* the runs of _make_api_call(func) by their result and the clock they leave
Outcomes(clock) ==
    {[res |-> r.res, off |-> r.off, synced |-> r.synced] : r \in MakeApiCall(clock)}

\* del self.active_orders[k] for every k in ids
Without(cache, ids) == [k \in DOMAIN cache \ ids |-> cache[k]]

\* a failed cancel drops the entry all the same
AfterCancelAnyway(cache, order_id, run) == Without(cache, {order_id})

\* active_orders after cancel_order's exchange call ended as run
AfterCancel(cache, order_id, run) ==
    IF run.res = "ok" THEN Without(cache, {order_id}) ELSE cache

\* a failed cancel-all drops the symbol's entries all the same
AfterCancelAllAnyway(cache, symbol, run) ==
    Without(cache, {k \in DOMAIN cache : cache[k].symbol = symbol})

\* a successful cancel-all empties the cache, whatever the symbol
AfterCancelAllEverything(cache, symbol, run) ==
    IF run.res = "ok" THEN <<>> ELSE cache

\* active_orders after cancel_all_orders' exchange call ended as run
AfterCancelAll(cache, symbol, run) ==
    IF run.res = "ok"
    THEN Without(cache, {k \in DOMAIN cache : cache[k].symbol = symbol})
    ELSE cache

\* active_orders after get_order_status got status from the exchange
AfterStatus(cache, order_id, status) ==
    IF order_id \in DOMAIN cache
    THEN [cache EXCEPT ![order_id].status = status] ELSE cache

\* the cache is emptied whatever the exchange reports open
AfterSyncCleared(cache, open) == Without(cache, DOMAIN cache)

\* active_orders after sync_cached_orders fetched the ids in open
AfterSync(cache, open) == Without(cache, {k \in DOMAIN cache : k \notin open})

\* the call raised before any request to the exchange
RaisedLocally(op, msg) ==
    /\ out' = Raised(op, "ValueError", msg)
    /\ UNCHANGED <<active_orders, next_order_id, time_offset, lastSynced>>

\* OrderManager.cancel_order(symbol, order_id)
CancelOrder ==
    /\ intent.op = "cancel_order"
    /\ IF ~ValidateSymbol(intent.symbol) THEN RaisedLocally("cancel_order", "Invalid symbol")
       ELSE IF intent.order_id <= 0 THEN RaisedLocally("cancel_order", "Invalid order_id")
       ELSE \E run \in Outcomes(Clock) :
               /\ active_orders' = AfterCancel(active_orders, intent.order_id, run)
               /\ out' = IF run.res = "ok" THEN Returned("cancel_order")
                         ELSE Raised("cancel_order", ExcType(run.res), run.res)
               /\ time_offset' = run.off
               /\ lastSynced' = run.synced
               /\ UNCHANGED next_order_id
    /\ UNCHANGED <<symbol_filters, ticker_price, exchange_info, intent, call>>
    /\ UNCHANGED rlVars
    /\ UNCHANGED thrVars

\* OrderManager.cancel_all_orders(symbol)
CancelAllOrders ==
    /\ intent.op = "cancel_all_orders"
    /\ IF ~ValidateSymbol(intent.symbol)
       THEN RaisedLocally("cancel_all_orders", "Invalid symbol")
       ELSE \E run \in Outcomes(Clock) :
               /\ active_orders' = AfterCancelAll(active_orders, intent.symbol, run)
               /\ out' = IF run.res = "ok" THEN Returned("cancel_all_orders")
                         ELSE Raised("cancel_all_orders", ExcType(run.res), run.res)
               /\ time_offset' = run.off
               /\ lastSynced' = run.synced
               /\ UNCHANGED next_order_id
    /\ UNCHANGED <<symbol_filters, ticker_price, exchange_info, intent, call>>
    /\ UNCHANGED rlVars
    /\ UNCHANGED thrVars

\* OrderManager.get_order_status(symbol, order_id)
GetOrderStatus ==
    /\ intent.op = "get_order_status"
    /\ IF ~ValidateSymbol(intent.symbol)
       THEN RaisedLocally("get_order_status", "Invalid symbol")
       ELSE IF intent.order_id <= 0
       THEN RaisedLocally("get_order_status", "Invalid order_id")
       ELSE \E run \in Outcomes(Clock) :
               /\ time_offset' = run.off
               /\ lastSynced' = run.synced
               /\ UNCHANGED next_order_id
               /\ IF run.res = "ok"
                  THEN \E st \in {"NEW", "FILLED"} :
                          /\ active_orders' = AfterStatus(active_orders, intent.order_id, st)
                          /\ out' = [Returned("get_order_status") EXCEPT
                                        !.order = [orderId |-> intent.order_id, status |-> st]]
                  ELSE /\ out' = Raised("get_order_status", ExcType(run.res), run.res)
                       /\ UNCHANGED active_orders
    /\ UNCHANGED <<symbol_filters, ticker_price, exchange_info, intent, call>>
    /\ UNCHANGED rlVars
    /\ UNCHANGED thrVars

\* OrderManager.sync_cached_orders(): get_open_orders() answers with the ids the
\* exchange holds open, cached here or not (next_order_id stands for an order placed
\* by another client); a failure is logged and swallowed
SyncCachedOrders ==
    /\ intent.op = "sync_cached_orders"
    /\ \E run \in Outcomes(Clock) :
          /\ time_offset' = run.off
          /\ lastSynced' = run.synced
          /\ IF run.res = "ok"
             THEN \E open \in SUBSET (1..next_order_id) :
                     /\ active_orders' = AfterSync(active_orders, open)
                     /\ out' = [op |-> "sync_cached_orders", result |-> "returned",
                                exc |-> "none", msg |-> "none", creates |-> 0,
                                order |-> NoOrder, open |-> Some(open)]
             ELSE /\ out' = [op |-> "sync_cached_orders", result |-> "returned",
                             exc |-> "none", msg |-> run.res, creates |-> 0,
                             order |-> NoOrder, open |-> None]
                  /\ UNCHANGED active_orders
    /\ UNCHANGED <<symbol_filters, ticker_price, exchange_info, next_order_id, intent, call>>
    /\ UNCHANGED rlVars
    /\ UNCHANGED thrVars

\* the entries get_cached_orders(symbol) returns: all of them for symbol None
CachedOrders(cache, symbol) ==
    IF symbol = None THEN cache
    ELSE [k \in {j \in DOMAIN cache : cache[j].symbol = symbol[1]} |-> cache[k]]

\* OrderManager.get_cached_orders(symbol)
GetCachedOrders ==
    /\ intent.op = "get_cached_orders"
    /\ out' = [op |-> "get_cached_orders", result |-> "returned", exc |-> "none",
               msg |-> "none", creates |-> 0, order |-> NoOrder,
               orders |-> CachedOrders(active_orders, intent.symbol)]
    /\ UNCHANGED <<symbol_filters, ticker_price, exchange_info, active_orders,
                   next_order_id, intent>>
    /\ UNCHANGED exVars
    /\ UNCHANGED rlVars
    /\ UNCHANGED thrVars

\* the requests made of the order manager
PlacementRequests ==
    {[op |-> "place_stop_limit_order", symbol |-> "BTCUSDT", side |-> "BUY", quantity |-> 2,
      price |-> Some(52), stop_price |-> Some(51), time_in_force |-> "GTC",
      reduce_only |-> FALSE],
     [op |-> "place_stop_limit_order", symbol |-> "ETHUSDT", side |-> "SELL", quantity |-> 4,
      price |-> Some(49), stop_price |-> Some(49), time_in_force |-> "GTC",
      reduce_only |-> TRUE],
     [op |-> "place_limit_order", symbol |-> "BTCUSDT", side |-> "BUY", quantity |-> 2,
      price |-> Some(51), stop_price |-> None, time_in_force |-> "GTC",
      reduce_only |-> FALSE],
     [op |-> "place_market_order", symbol |-> "BTCUSDT", side |-> "SELL", quantity |-> 4,
      price |-> None, stop_price |-> None, time_in_force |-> "GTC", reduce_only |-> FALSE]}

CacheRequests ==
    [op : {"cancel_order", "get_order_status"}, symbol : {"BTCUSDT"}, order_id : 0..MaxOrders]
    \cup [op : {"cancel_order", "get_order_status"}, symbol : {"XRPUSDT"}, order_id : {1}]
    \cup [op : {"cancel_all_orders"}, symbol : {"BTCUSDT", "ETHUSDT", "XRPUSDT"}]
    \cup {[op |-> "sync_cached_orders"]}
    \cup [op : {"get_cached_orders"}, symbol : {None, Some("BTCUSDT")}]

Requests == PlacementRequests \cup CacheRequests

\* the caller turns to its next request; the result of the last one is dropped
Request ==
    /\ \E i \in Requests : intent' = i
    /\ out' = NoOut
    /\ UNCHANGED <<symbol_filters, ticker_price, exchange_info, active_orders, next_order_id>>
    /\ UNCHANGED exVars
    /\ UNCHANGED rlVars
    /\ UNCHANGED thrVars

\* BasicBot and OrderManager constructed: BTCUSDT and ETHUSDT trade, XRPUSDT is not listed
CacheInit ==
    /\ exchange_info = [s \in Symbols |-> [status |-> "TRADING"]]
    /\ symbol_filters = [s \in Symbols |-> ListedFilters]
    /\ ticker_price = [s \in Symbols |-> 50]
    /\ intent \in Requests
    /\ active_orders = <<>>
    /\ next_order_id = 1
    /\ out = NoOut
    /\ \E res \in SyncResults :
          /\ time_offset = SyncTimeWithBinance(res, 0)
          /\ lastSynced = IF res.ok THEN res.skew ELSE 0
    /\ call = NoApiCall
    /\ max_requests = 1
    /\ time_window = 1
    /\ requests = <<>>
    /\ now = 0
    /\ admitted = <<>>
    /\ rlLast = NoCall
    /\ acq = <<>>
    /\ open_orders = {}
    /\ running = <<>>

CacheNext ==
    \/ Request
    \/ PlaceMarketOrder \/ PlaceLimitOrder \/ PlaceStopLimitOrder
    \/ CancelOrder \/ CancelAllOrders \/ GetOrderStatus \/ SyncCachedOrders
    \/ GetCachedOrders

SpecCache == CacheInit /\ [][CacheNext]_vars

(***************************************************************************)
(* C17..C20: the cache under cancel, sync and failure; OCO orders          *)
(***************************************************************************)
\* a call of op on the pending request ended in this step
Ended(op) == intent.op = op /\ intent' = intent /\ out'.op = op

\* C17: after cancel_order(symbol, id) succeeds, active_orders has no entry for id
\* and every other entry is unchanged; after a failed cancel (validation error or
\* exchange error) active_orders is what it was.
C17_CancelRemovesOnlyOnSuccess ==
    [][Ended("cancel_order") =>
          IF out'.result = "returned"
          THEN /\ intent.order_id \notin DOMAIN active_orders'
               /\ DOMAIN active_orders' = DOMAIN active_orders \ {intent.order_id}
               /\ \A k \in DOMAIN active_orders' : active_orders'[k] = active_orders[k]
          ELSE active_orders' = active_orders]_vars

\* order 1 was canceled and order 2 is still cached
C17_Witness ==
    /\ out = Returned("cancel_order")
    /\ intent.op = "cancel_order" /\ intent.order_id = 1
    /\ DOMAIN active_orders = {2}

\* C18: when sync_cached_orders fetched the exchange's open orders, active_orders
\* is its previous content restricted to the fetched ids: other entries are
\* removed, entries in the set are unchanged, none is added.
C18_SyncRestrictsCache ==
    [][(Ended("sync_cached_orders") /\ out'.open # None) =>
          /\ DOMAIN active_orders' = DOMAIN active_orders \cap out'.open[1]
          /\ \A k \in DOMAIN active_orders' : active_orders'[k] = active_orders[k]]_vars

\* the exchange reported 1 and the uncached 3 open: 1 stayed, 2 went, 3 was not added
C18_Witness ==
    /\ out.op = "sync_cached_orders"
    /\ out.open = Some({1, 3})
    /\ next_order_id = 3
    /\ DOMAIN active_orders = {1}

\* the ops of the order manager and the bot that call the exchange
ExchangeOps ==
    {"place_market_order", "place_limit_order", "place_stop_limit_order",
     "cancel_order", "cancel_all_orders", "get_order_status"}

\* C19: a placement, cancel, cancel-all or status query that raises (business
\* error, retries exhausted, the call abandoned), and a sync whose fetch fails,
\* leave active_orders as it was.
C19_FailedCallsLeaveCache ==
    [][(/\ intent' = intent
        /\ \/ out'.op \in ExchangeOps /\ out'.op = intent.op /\ out'.result = "raised"
           \/ Ended("sync_cached_orders") /\ out'.open = None)
       => active_orders' = active_orders]_vars

\* cancel_all_orders failed at the exchange and the cached orders are still there
C19_Witness ==
    /\ out.op = "cancel_all_orders"
    /\ out.result = "raised" /\ out.exc = "BinanceAPIException"
    /\ intent.op = "cancel_all_orders"
    /\ \E k \in DOMAIN active_orders : active_orders[k].symbol = intent.symbol

(***************************************************************************)
(* C40: what cancel_all_orders and get_cached_orders leave in the cache    *)
(***************************************************************************)
\* C40: after cancel_all_orders(symbol) succeeds, active_orders has no entry for
\* that symbol and every entry for another symbol is unchanged; get_cached_orders
\* never changes the set of cached order ids.
C40_CancelAllFrame ==
    [][/\ (Ended("cancel_all_orders") /\ out'.result = "returned") =>
             /\ \A k \in DOMAIN active_orders' : active_orders'[k].symbol # intent.symbol
             /\ DOMAIN active_orders' =
                   {k \in DOMAIN active_orders : active_orders[k].symbol # intent.symbol}
             /\ \A k \in DOMAIN active_orders' : active_orders'[k] = active_orders[k]
       /\ Ended("get_cached_orders") => DOMAIN active_orders' = DOMAIN active_orders]_vars

\* cancel_all_orders("BTCUSDT") succeeded with one order cached for each symbol
\* before it: the ETHUSDT order is the one still cached
C40_Witness ==
    /\ out = Returned("cancel_all_orders")
    /\ intent.op = "cancel_all_orders" /\ intent.symbol = "BTCUSDT"
    /\ next_order_id = 3
    /\ Cardinality(DOMAIN active_orders) = 1
    /\ \A k \in DOMAIN active_orders : active_orders[k].symbol = "ETHUSDT"

\* get_cached_orders("BTCUSDT") returned one of the two cached orders
C40_WitnessCached ==
    /\ out.op = "get_cached_orders" /\ intent.op = "get_cached_orders"
    /\ intent.symbol = Some("BTCUSDT")
    /\ Cardinality(DOMAIN active_orders) = 2
    /\ Cardinality(DOMAIN out.orders) = 1

\* the OCO request has a non-positive quantity or price
OcoNonPositive ==
    \/ intent.quantity <= 0 \/ intent.price <= 0
    \/ intent.stop_price <= 0 \/ intent.stop_limit_price <= 0

\* take profit on the profitable side of the market, stop on the protecting side
OcoDirectional ==
    LET current == ticker_price[intent.symbol]
    IN  IF intent.side = "BUY"
        THEN intent.price > current /\ intent.stop_price < current
        ELSE intent.price < current /\ intent.stop_price > current

C21_OcoSubmitsTwoLegs ==
    [][(/\ intent.op = "place_oco_order"
        /\ vars' # vars /\ ticker_price' = ticker_price
        /\ intent.symbol # ""
        /\ ~OcoNonPositive /\ OcoDirectional
        /\ out'.exc \notin {"BinanceAPIException", "RequestException", "Exception"})
       => /\ out'.result = "returned"
          /\ out'.creates = 2]_vars


ConstraintReasons ==
    {"Quantity outside allowed range", "Quantity doesn't comply with step size",
     "Price outside allowed range", "Price doesn't comply with tick size",
     "Order notional below minimum"}

\* C25: a validation rejection that place_market_order, place_limit_order or
\* place_stop_limit_order raises to its caller for an intent that breaks a filter
\* names the constraint that failed (with its bound), not merely that validation
\* failed.
C25_RejectionNamesConstraint ==
    [][(/\ EntryPointStep
        /\ ~InvalidSide /\ ~InvalidTimeInForce /\ ~NonTradeable
        /\ intent.quantity > 0
        /\ FilterViolation
        /\ out'.result = "raised" /\ out'.exc = "ValueError")
       => out'.msg \in ConstraintReasons]_vars

(***************************************************************************)
(* The entry points against symbols whose published filters are partial or *)
(* absent                                                                  *)
(***************************************************************************)
\* the filter dicts _initialize_exchange_info caches for a symbol: all three
\* filters, a lot size or a price filter alone, or no filter at all
PublishedFilters ==
    {ListedFilters, <<>>}
    \cup {[t \in {u} |-> ListedFilters[u]] : u \in {"LOT_SIZE", "PRICE_FILTER"}}

\* the placements asked for, zero amounts among them
BareIntents ==
    {[op |-> "place_market_order", symbol |-> "BTCUSDT", side |-> d, quantity |-> q,
      price |-> None, stop_price |-> None, time_in_force |-> "GTC", reduce_only |-> FALSE]
        : d \in {"BUY", "SELL"}, q \in {0, 2}}
    \cup
    {[op |-> "place_limit_order", symbol |-> "BTCUSDT", side |-> d, quantity |-> q,
      price |-> Some(p), stop_price |-> None, time_in_force |-> "GTC",
      reduce_only |-> FALSE]
        : d \in {"BUY", "SELL"}, q \in {0, 2}, p \in {0, 50}}
    \cup
    {[op |-> "place_stop_limit_order", symbol |-> "BTCUSDT", side |-> d, quantity |-> q,
      price |-> Some(p[1]), stop_price |-> Some(p[2]), time_in_force |-> "GTC",
      reduce_only |-> FALSE]
        : d \in {"BUY", "SELL"}, q \in {0, 2}, p \in {0, 49, 51} \X {0, 49, 51}}

BareInit ==
    /\ exchange_info = [s \in Symbols |-> [status |-> "TRADING"]]
    /\ \E fl \in PublishedFilters : symbol_filters = [s \in Symbols |-> fl]
    /\ ticker_price = [s \in Symbols |-> 50]
    /\ intent \in BareIntents
    /\ active_orders = <<>>
    /\ next_order_id = 1
    /\ out = NoOut
    /\ \E res \in SyncResults :
          /\ time_offset = SyncTimeWithBinance(res, 0)
          /\ lastSynced = IF res.ok THEN res.skew ELSE 0
    /\ call = NoApiCall
    /\ max_requests = 1
    /\ time_window = 1
    /\ requests = <<>>
    /\ now = 0
    /\ admitted = <<>>
    /\ rlLast = NoCall
    /\ acq = <<>>
    /\ open_orders = {}
    /\ running = <<>>

BareNext ==
    \/ PlaceMarketOrder \/ PlaceLimitOrder \/ PlaceStopLimitOrder
    \/ TickerMoves

SpecBare == BareInit /\ [][BareNext]_vars

(***************************************************************************)
(* C37: the amounts of a create request                                    *)
(***************************************************************************)
\* C37: every create request issued by place_market_order, place_limit_order or
\* place_stop_limit_order carries a strictly positive quantity and, when present,
\* strictly positive price and stop price, whatever filters the symbol has.
C37_CreateRequestsArePositive ==
    (/\ out.op \in {"place_market_order", "place_limit_order", "place_stop_limit_order"}
     /\ out.creates >= 1)
    => /\ intent.quantity > 0
       /\ intent.price # None => intent.price[1] > 0
       /\ intent.stop_price # None => intent.stop_price[1] > 0

\* the same statement for place_stop_limit_order alone, which checks its amounts
C37_StopLimitRequestsArePositive ==
    (out.op = "place_stop_limit_order" /\ out.creates >= 1)
    => /\ intent.quantity > 0
       /\ intent.price[1] > 0
       /\ intent.stop_price[1] > 0

(***************************************************************************)
(* C27: a stop price equal to the market price                             *)
(***************************************************************************)
\* C27: when place_stop_limit_order reaches _validate_stop_limit_params with a stop
\* price equal to the current market price, the stop-versus-market check does not
\* reject: a BUY with limit >= stop goes on to the create request, and a limit on
\* the wrong side of the stop (BUY limit < stop, SELL limit > stop) is rejected
\* with the limit-versus-stop reason.
C27_StopAtMarketNotRejected ==
    [][(/\ EntryPointStep
        /\ intent.op = "place_stop_limit_order"
        /\ ~InvalidSide /\ ~InvalidTimeInForce /\ ~NonTradeable /\ ~FilterViolation
        /\ ~TickerFailed(out')
        /\ intent.stop_price[1] = ticker_price[intent.symbol])
       => /\ (intent.side = "BUY" /\ intent.price[1] >= intent.stop_price[1])
                => out'.creates >= 1
          /\ (intent.side = "BUY" /\ intent.price[1] < intent.stop_price[1])
                => out'.msg = "Buy limit price should be >= stop price"
          /\ (intent.side = "SELL" /\ intent.price[1] > intent.stop_price[1])
                => out'.msg = "Sell limit price should be <= stop price"]_vars

(***************************************************************************)
(* BasicBot._initialize_exchange_info: loading the filter cache            *)
(***************************************************************************)
MaxLoads == 3

LotA == [filterType |-> "LOT_SIZE", minQty |-> 1, maxQty |-> 4, stepSize |-> 1]
LotB == [filterType |-> "LOT_SIZE", minQty |-> 2, maxQty |-> 4, stepSize |-> 2]
TickA == [filterType |-> "PRICE_FILTER", minPrice |-> 1, maxPrice |-> 4, tickSize |-> 1]
NotionalA == [filterType |-> "MIN_NOTIONAL", minNotional |-> 4]

\* symbol_info['filters'] as the exchange may list them (once with a repeated type)
FilterInfoLists == {<<LotA>>, <<LotB, TickA>>, <<LotA, TickA, NotionalA>>, <<LotA, LotB>>}

SymbolInfos(symbol) ==
    {[symbol |-> symbol, status |-> "TRADING", filters |-> fs] : fs \in FilterInfoLists}

\* exchange_info['symbols'] as futures_exchange_info() may return it
ExchangeSnapshots ==
    {<<a>> : a \in SymbolInfos("BTCUSDT") \cup SymbolInfos("ETHUSDT")}
    \cup {<<a, b>> : a \in SymbolInfos("BTCUSDT"), b \in SymbolInfos("ETHUSDT")}

\* {filter_info['filterType']: filter_info for filter_info in symbol_info['filters']}:
\* the last filter of a type is the one kept
FiltersByType(fs) ==
    [t \in {fs[i].filterType : i \in DOMAIN fs} |->
        fs[CHOOSE i \in DOMAIN fs :
              /\ fs[i].filterType = t
              /\ \A j \in DOMAIN fs : fs[j].filterType = t => j <= i]]

\* a symbol that is already cached is evicted instead of overwritten
SymbolFiltersEvicting(sf, symbols) ==
    LET listed == {symbols[i].symbol : i \in DOMAIN symbols}
    IN  [s \in (DOMAIN sf \cup listed) \ (DOMAIN sf \cap listed) |->
            IF s \in listed
            THEN FiltersByType(symbols[CHOOSE i \in DOMAIN symbols : symbols[i].symbol = s].filters)
            ELSE sf[s]]

\* symbol_filters after the loop `for symbol_info in self.exchange_info['symbols']`
SymbolFiltersAfter(sf, symbols) ==
    LET listed == {symbols[i].symbol : i \in DOMAIN symbols}
    IN  [s \in DOMAIN sf \cup listed |->
            IF s \in listed
            THEN LET last == CHOOSE i \in DOMAIN symbols :
                                /\ symbols[i].symbol = s
                                /\ \A j \in DOMAIN symbols : symbols[j].symbol = s => j <= i
                 IN  FiltersByType(symbols[last].filters)
            ELSE sf[s]]

\* exchange_info as the rest of the model reads it: the listed symbols' status
ListingOf(symbols) ==
    [s \in {symbols[i].symbol : i \in DOMAIN symbols} |->
        [status |-> symbols[CHOOSE i \in DOMAIN symbols : symbols[i].symbol = s].status]]

\* BasicBot._initialize_exchange_info(); snapshot is what futures_exchange_info()
\* returns when the call succeeds; out keeps the snapshot of the run before
InitializeExchangeInfo ==
    /\ out.loads < MaxLoads
    /\ \E snapshot \in ExchangeSnapshots, run \in Outcomes(Clock) :
          /\ time_offset' = run.off
          /\ lastSynced' = run.synced
          /\ IF run.res = "ok"
             THEN /\ exchange_info' = ListingOf(snapshot)
                  /\ symbol_filters' = SymbolFiltersAfter(symbol_filters, snapshot)
                  /\ out' = [op |-> "_initialize_exchange_info", result |-> "returned",
                             exc |-> "none", snapshot |-> snapshot, before |-> out.snapshot,
                             loads |-> out.loads + 1]
             ELSE /\ UNCHANGED <<exchange_info, symbol_filters>>
                  /\ out' = [op |-> "_initialize_exchange_info", result |-> "raised",
                             exc |-> ExcType(run.res), snapshot |-> <<>>,
                             before |-> out.snapshot, loads |-> out.loads + 1]
    /\ UNCHANGED <<ticker_price, active_orders, next_order_id, intent, call>>
    /\ UNCHANGED rlVars
    /\ UNCHANGED thrVars

\* BasicBot.__init__ before its first load: nothing cached
LoadInit ==
    /\ exchange_info = <<>>
    /\ symbol_filters = <<>>
    /\ out = [op |-> "none", result |-> "none", exc |-> "none", snapshot |-> <<>>,
              before |-> <<>>, loads |-> 0]
    /\ time_offset = 0
    /\ lastSynced = 0
    /\ ticker_price = <<>>
    /\ intent = NoOut
    /\ active_orders = <<>>
    /\ next_order_id = 1
    /\ call = NoApiCall
    /\ max_requests = 1
    /\ time_window = 1
    /\ requests = <<>>
    /\ now = 0
    /\ admitted = <<>>
    /\ rlLast = NoCall
    /\ acq = <<>>
    /\ open_orders = {}
    /\ running = <<>>

LoadNext == InitializeExchangeInfo

SpecLoad == LoadInit /\ [][LoadNext]_vars

\* C28: loading the filter cache is idempotent: a run of _initialize_exchange_info
\* that follows a load of the same exchange snapshot leaves symbol_filters
\* identical to what it was after that first load.
C28_LoadIsIdempotent ==
    [][(/\ out.result = "returned"
        /\ out'.result = "returned"
        /\ out'.loads = out.loads + 1
        /\ out'.snapshot = out.snapshot)
       => symbol_filters' = symbol_filters]_vars

\* a load has run against the two-symbol snapshot (one symbol listing a filter type
\* twice) that the load before it had received
C28_Witness ==
    /\ out.result = "returned" /\ out.loads >= 2
    /\ out.before = out.snapshot
    /\ Len(out.snapshot) = 2
    /\ out.snapshot[1].filters = <<LotA, LotB>>
    /\ symbol_filters = SymbolFiltersAfter(<<>>, out.snapshot)
    /\ symbol_filters["BTCUSDT"]["LOT_SIZE"] = LotB

\* C38: after every successful run of _initialize_exchange_info the symbols in
\* symbol_filters are exactly the symbols of the exchange snapshot just fetched: a
\* symbol the exchange no longer lists keeps no filters in the cache.
C38_CacheHoldsOnlyListedSymbols ==
    (out.op = "_initialize_exchange_info" /\ out.result = "returned") =>
        DOMAIN symbol_filters = {out.snapshot[i].symbol : i \in DOMAIN out.snapshot}

(***************************************************************************)
(* utils.format_quantity and utils.format_price                            *)
(*                                                                         *)
(* A number is counted in units of 10^-MaxDecimals.  A tick size is a      *)
(* Decimal, coefficient and exponent, because format_price reads its       *)
(* string.  A formatted string is its value and its number of decimals.    *)
(***************************************************************************)
MaxDecimals == 7
MaxCoef == 9

RECURSIVE Pow10(_)
Pow10(n) == IF n = 0 THEN 1 ELSE 10 * Pow10(n - 1)

\* the value of Decimal [coef, exp] in units
DecimalUnits(d) == d.coef * Pow10(MaxDecimals + d.exp)

\* len(str(n)) for n > 0
RECURSIVE Digits(_)
Digits(n) == IF n < 10 THEN 1 ELSE 1 + Digits(n \div 10)

\* Decimal.__str__ writes d with an exponent: exp > 0, or exp + digits <= -6
ScientificStr(d) == d.exp > 0 \/ d.exp + Digits(d.coef) <= -6

\* the precision format_price reads off str(decimal_tick_size): the digits after '.',
\* 0 without a '.' (coefficients here have one digit and no trailing zero)
TickPrecision(tick) ==
    IF ScientificStr(tick) THEN 0 ELSE -tick.exp

\* x.quantize(step, rounding=ROUND_DOWN) for x >= 0, step in units
QuantizeDown(x, step) == (x \div step) * step

\* format_str.format(float(x)) with `precision` decimals: the nearest value with that
\* many decimals, a tie going to the even digit
FormatFloat(x, precision) ==
    LET step == Pow10(MaxDecimals - precision)
        q    == x \div step
        r    == x % step
    IN  [units |-> IF 2 * r < step THEN q * step
                   ELSE IF 2 * r > step THEN (q + 1) * step
                   ELSE IF q % 2 = 0 THEN q * step ELSE (q + 1) * step,
         decimals |-> precision]

\* format_quantity(quantity, precision)
FormatQuantity(quantity, precision) ==
    FormatFloat(QuantizeDown(quantity, Pow10(MaxDecimals - precision)), precision)

\* format_price(price, tick_size)
FormatPrice(price, tick) ==
    FormatFloat(QuantizeDown(price, DecimalUnits(tick)), TickPrecision(tick))

\* positive inputs, in units
PositiveAmounts == {c * Pow10(e) : c \in 1..MaxCoef, e \in 0..MaxDecimals}

\* tick sizes from 0.0000001 to 5
TickSizes == [coef : {1, 5}, exp : (-MaxDecimals)..0]

FormatInputs ==
    [op : {"format_price"}, value : PositiveAmounts, tick : TickSizes]
    \cup [op : {"format_quantity"}, value : PositiveAmounts, precision : 0..MaxDecimals]

\* format_price(value, tick), then format_price of its result
CallFormatPrice ==
    /\ intent.op = "format_price"
    /\ out = NoOut
    /\ LET r == FormatPrice(intent.value, intent.tick)
       IN  out' = [op |-> "format_price", units |-> r.units, decimals |-> r.decimals,
                   granularity |-> DecimalUnits(intent.tick),
                   again |-> FormatPrice(r.units, intent.tick).units]
    /\ UNCHANGED <<symbol_filters, ticker_price, exchange_info, active_orders,
                   next_order_id, intent>>
    /\ UNCHANGED rlVars
    /\ UNCHANGED thrVars
    /\ UNCHANGED exVars

\* format_quantity(value, precision), then format_quantity of its result
CallFormatQuantity ==
    /\ intent.op = "format_quantity"
    /\ out = NoOut
    /\ LET r == FormatQuantity(intent.value, intent.precision)
       IN  out' = [op |-> "format_quantity", units |-> r.units, decimals |-> r.decimals,
                   granularity |-> Pow10(MaxDecimals - intent.precision),
                   again |-> FormatQuantity(r.units, intent.precision).units]
    /\ UNCHANGED <<symbol_filters, ticker_price, exchange_info, active_orders,
                   next_order_id, intent>>
    /\ UNCHANGED rlVars
    /\ UNCHANGED thrVars
    /\ UNCHANGED exVars

FormatInit ==
    /\ intent \in FormatInputs
    /\ out = NoOut
    /\ max_requests = 1
    /\ time_window = 1
    /\ requests = <<>>
    /\ now = 0
    /\ admitted = <<>>
    /\ rlLast = NoCall
    /\ acq = <<>>
    /\ open_orders = {}
    /\ running = <<>>
    /\ time_offset = 0
    /\ lastSynced = 0
    /\ call = NoApiCall
    /\ symbol_filters = <<>>
    /\ ticker_price = <<>>
    /\ exchange_info = <<>>
    /\ active_orders = <<>>
    /\ next_order_id = 1

FormatNext == CallFormatPrice \/ CallFormatQuantity

SpecFormat == FormatInit /\ [][FormatNext]_vars

\* C29: format_quantity and format_price truncate and never round up: for every
\* positive input the result is the largest multiple of the granularity
\* (10^-precision, respectively the tick size) that does not exceed the input, so
\* it differs from the input by less than one granularity unit, and formatting the
\* result again returns it unchanged.
C29_FormatTruncates ==
    out.op \in {"format_price", "format_quantity"} =>
        /\ out.units % out.granularity = 0
        /\ out.units <= intent.value
        /\ intent.value - out.units < out.granularity
        /\ out.again = out.units

(***************************************************************************)
(* The sleep before a retry, as each executor computes it                  *)
(***************************************************************************)
MaxAttempt == 7

\* max_delay: float = 60.0, the only cap on a backoff delay in the repository
DefaultMaxDelay == 6000

BackoffInputs ==
    [op : {"backoff"}, exec : {"bot", "util"}, attempt : 0..MaxAttempt,
     max_delay : {300, DefaultMaxDelay}, pct : JitterPcts]

\* _make_api_call: wait_time = 2 ** attempt; time.sleep(wait_time)
BotSleeps ==
    /\ intent.exec = "bot"
    /\ out = NoOut
    /\ out' = [op |-> "sleep", exec |-> "bot", attempt |-> intent.attempt,
               cap |-> DefaultMaxDelay, slept |-> BotWaitTime(intent.attempt)]
    /\ UNCHANGED <<symbol_filters, ticker_price, exchange_info, active_orders,
                   next_order_id, intent>>
    /\ UNCHANGED rlVars
    /\ UNCHANGED thrVars
    /\ UNCHANGED exVars

\* exponential_backoff: delay = min(...); delay *= (0.5 + random.random() * 0.5);
\* time.sleep(delay)
UtilSleeps ==
    /\ intent.exec = "util"
    /\ out = NoOut
    /\ out' = [op |-> "sleep", exec |-> "util", attempt |-> intent.attempt,
               cap |-> intent.max_delay,
               slept |-> (UtilDelay(intent.attempt, intent.max_delay) * intent.pct) \div 100]
    /\ UNCHANGED <<symbol_filters, ticker_price, exchange_info, active_orders,
                   next_order_id, intent>>
    /\ UNCHANGED rlVars
    /\ UNCHANGED thrVars
    /\ UNCHANGED exVars

BackoffInit ==
    /\ max_requests = 1
    /\ time_window = 1
    /\ requests = <<>>
    /\ now = 0
    /\ admitted = <<>>
    /\ rlLast = NoCall
    /\ acq = <<>>
    /\ open_orders = {}
    /\ running = <<>>
    /\ time_offset = 0
    /\ lastSynced = 0
    /\ call = NoApiCall
    /\ symbol_filters = <<>>
    /\ ticker_price = <<>>
    /\ out = NoOut
    /\ exchange_info = <<>>
    /\ active_orders = <<>>
    /\ next_order_id = 1
    /\ intent \in BackoffInputs

BackoffNext == BotSleeps \/ UtilSleeps

SpecBackoff == BackoffInit /\ [][BackoffNext]_vars

\* C23: the sleep before retry number k lasts between 0.5 and 1.0 times the nominal
\* delay min(base * 2^k, cap), so no backoff sleep exceeds the cap, in
\* _make_api_call as well as in exponential_backoff.
C23_SleepWithinNominal ==
    out.op = "sleep" =>
        LET nominal == Min(100 * Pow2(out.attempt), out.cap)
        IN  /\ 2 * out.slept >= nominal
            /\ out.slept <= nominal

(***************************************************************************)
(* place_stop_limit_order and sync_cached_orders called on one             *)
(* OrderManager by two threads: neither method takes a lock, so their      *)
(* statements interleave.  The steps are the statements that read or write *)
(* active_orders and the calls to the exchange between them.               *)
(***************************************************************************)
\* the stop-limit order the placing thread asks for: valid at the market price 50
RacingIntent ==
    [op |-> "place_stop_limit_order", symbol |-> "BTCUSDT", side |-> "BUY", quantity |-> 2,
     price |-> Some(51), stop_price |-> Some(51), time_in_force |-> "GTC",
     reduce_only |-> FALSE]

NoThreads ==
    [place |-> [pc |-> "idle", order |-> 0],
     sync  |-> [pc |-> "idle", all_open |-> {}, inactive |-> {}],
     inserted |-> {}]

\* inactive_orders of sync_cached_orders: the cached ids missing from the fetched list
InactiveOrders(cache, active_order_ids) ==
    {order_id \in DOMAIN cache : order_id \notin active_order_ids}

\* place_stop_limit_order up to the return of futures_create_order: the checks,
\* then the create request, which the exchange answers by opening the order
PlacementCreates ==
    /\ running.place.pc \in {"idle", "returned", "raised"}
    /\ next_order_id <= MaxOrders
    /\ \E prun \in GetSymbolPrice(Clock) :
          IF StopLimitChecks(intent, prun) # Pass
          THEN /\ running' = [running EXCEPT !.place = [pc |-> "raised", order |-> 0]]
               /\ time_offset' = prun.off
               /\ lastSynced' = prun.synced
               /\ UNCHANGED <<open_orders, next_order_id>>
          ELSE \E run \in MakeApiCall(ClockOf(prun)) :
               /\ time_offset' = run.off
               /\ lastSynced' = run.synced
               /\ IF run.res = "ok"
                  THEN /\ open_orders' = open_orders \cup {next_order_id}
                       /\ next_order_id' = next_order_id + 1
                       /\ running' = [running EXCEPT
                             !.place = [pc |-> "created", order |-> next_order_id]]
                  ELSE /\ running' = [running EXCEPT !.place = [pc |-> "raised", order |-> 0]]
                       /\ UNCHANGED <<open_orders, next_order_id>>
    /\ UNCHANGED <<symbol_filters, ticker_price, out, exchange_info, active_orders, intent,
                   call>>
    /\ UNCHANGED rlVars

\* place_stop_limit_order: self.active_orders[order_id] = {...}, and the return
PlacementInserts ==
    /\ running.place.pc = "created"
    /\ active_orders' = (running.place.order :> Snapshot(intent, "NEW")) @@ active_orders
    /\ running' = [running EXCEPT !.place.pc = "returned",
                                  !.inserted = @ \cup {running.place.order}]
    /\ UNCHANGED <<symbol_filters, ticker_price, out, exchange_info, next_order_id, intent,
                   open_orders>>
    /\ UNCHANGED exVars
    /\ UNCHANGED rlVars

\* sync_cached_orders: all_open_orders = self.get_open_orders() and the set of
\* their ids; a failure is logged and the method returns
SyncFetches ==
    /\ running.sync.pc \in {"idle", "done"}
    /\ \E run \in Outcomes(Clock) :
          /\ time_offset' = run.off
          /\ lastSynced' = run.synced
          /\ running' = [running EXCEPT !.sync =
                IF run.res = "ok"
                THEN [pc |-> "fetched", all_open |-> open_orders, inactive |-> {}]
                ELSE [pc |-> "done", all_open |-> {}, inactive |-> {}]]
    /\ UNCHANGED <<ordVars, open_orders, call>>
    /\ UNCHANGED rlVars

\* sync_cached_orders: inactive_orders = [ids of self.active_orders not fetched]
SyncLists ==
    /\ running.sync.pc = "fetched"
    /\ running' = [running EXCEPT
          !.sync.pc = "listed",
          !.sync.inactive = InactiveOrders(active_orders, running.sync.all_open)]
    /\ UNCHANGED <<ordVars, open_orders>>
    /\ UNCHANGED exVars
    /\ UNCHANGED rlVars

\* sync_cached_orders: del self.active_orders[order_id] for each inactive id
SyncDeletes ==
    /\ running.sync.pc = "listed"
    /\ active_orders' = Without(active_orders, running.sync.inactive)
    /\ running' = [running EXCEPT !.sync.pc = "done"]
    /\ UNCHANGED <<symbol_filters, ticker_price, out, exchange_info, next_order_id, intent,
                   open_orders>>
    /\ UNCHANGED exVars
    /\ UNCHANGED rlVars

\* the exchange fills or cancels an open order
ExchangeCloses ==
    /\ \E id \in open_orders : open_orders' = open_orders \ {id}
    /\ UNCHANGED <<ordVars, running>>
    /\ UNCHANGED exVars
    /\ UNCHANGED rlVars

SyncInit ==
    /\ exchange_info = [s \in Symbols |-> [status |-> "TRADING"]]
    /\ symbol_filters = [s \in Symbols |-> ListedFilters]
    /\ ticker_price = [s \in Symbols |-> 50]
    /\ intent = RacingIntent
    /\ active_orders = <<>>
    /\ next_order_id = 1
    /\ out = NoOut
    /\ \E res \in SyncResults :
          /\ time_offset = SyncTimeWithBinance(res, 0)
          /\ lastSynced = IF res.ok THEN res.skew ELSE 0
    /\ call = NoApiCall
    /\ max_requests = 1
    /\ time_window = 1
    /\ requests = <<>>
    /\ now = 0
    /\ admitted = <<>>
    /\ rlLast = NoCall
    /\ acq = <<>>
    /\ open_orders = {}
    /\ running = NoThreads

SyncNext ==
    \/ PlacementCreates \/ PlacementInserts
    \/ SyncFetches \/ SyncLists \/ SyncDeletes
    \/ ExchangeCloses

SpecSync == SyncInit /\ [][SyncNext]_vars

(***************************************************************************)
(* C31: reconciliation against a concurrent placement                      *)
(***************************************************************************)
\* C31: over every interleaving of a stop-limit placement with sync_cached_orders,
\* once the reconciliation has finished, every order that a completed placement
\* inserted and that the exchange still lists as open is still cached.
C31_SyncKeepsOpenOrders ==
    running.sync.pc = "done" =>
        \A order_id \in running.inserted \cap open_orders :
            order_id \in DOMAIN active_orders

====
